---- MODULE Spec2Model ----
(***************************************************************************)
(* A model of the Quartzy integration client (app/services/quartzy_service *)
(* .py) and of the API handlers that drive it (app/api/quartzy.py,         *)
(* app/api/submission.py).                                                 *)
(*                                                                         *)
(* The remote REST API is the environment.  One call of the client is one  *)
(* behaviour: the call's arguments and the remote's answers are drawn in   *)
(* the initial state, and every action is one step of the called method    *)
(* (one HTTP request together with the bookkeeping that follows it).       *)
(***************************************************************************)
EXTENDS Integers, Sequences, FiniteSets, TLC

VARIABLES
    remote,   \* the tenant's behaviour: how each request is answered
    cfg,      \* the service configuration (lab id set, enabled with a token)
    h,        \* the frame of the caller: handler name, stage, locals, response
    op,       \* the service method being executed
    args,     \* its arguments
    cur,      \* position in the method: [phase, idx] (loop indices)
    tries,    \* the method's attempt log (the local list `tries`)
    wire,     \* every HTTP request sent so far, in issue order
    ret,      \* the value the method returned (kind "none" while running)
    src,      \* the paginated collection a fetch reads (pages, metadata, failures)
    fx,       \* the frame of a paginated fetch: locals, worker pool, result
    svc,      \* the service instance: its caches, discovered strategy, debug record
    now       \* the wall clock, time.time()

wvars == <<remote, cfg, h, op, args, cur, tries, wire, ret>>
vars == <<remote, cfg, h, op, args, cur, tries, wire, ret, src, fx, svc, now>>

(***************************************************************************)
(* Bounds of the model.                                                    *)
(***************************************************************************)
PatLen == 2        \* period of the remote's failure pattern
MaxOkAt == 4       \* latest request a remote accepts by its position
MaxQty == 1        \* largest stock quantity / delta magnitude enumerated

(***************************************************************************)
(* Optional values: None is the empty sequence, Some(x) the singleton.     *)
(***************************************************************************)
None == <<>>
Some(x) == <<x>>
IsSome(o) == o # <<>>
Val(o) == o[1]

Max(a, b) == IF a >= b THEN a ELSE b

\* a guard that lets every identifier through
NeverFalsy(x) == FALSE

\* Python's `not x` for an identifier: None and the empty string are both
\* falsy, and both are written "" here
Falsy(x) == x = ""

(***************************************************************************)
(* The service instance: the fields of QuartzyService that outlive a call. *)
(***************************************************************************)
\* cache_ttl when the configuration gives none
DefaultCacheTtl == 120

\* a cache slot as __init__ and clear_caches leave it
BlankEntry == [data |-> None, ts |-> 0]

\* self._caches after __init__ and after clear_caches; a cached value v is
\* kept as Some(v), Python's None as None
BlankCaches ==
    [orders |-> BlankEntry, labs |-> BlankEntry, types |-> BlankEntry,
     inventory_search |-> <<>>]

\* the instance after __init__ with cache_ttl = ttl
NewService(ttl) ==
    [cache_ttl |-> ttl, caches |-> BlankCaches,
     orders_filter_strategy |-> None, orders_filter_strategy_checked |-> FALSE,
     debug |-> <<>>]


(***************************************************************************)
(* The remote.  A write that is request number i (1-based, over the whole  *)
(* call) is answered "200" when i is the remote's okAt, or when i is later *)
(* and the remote keeps accepting (thenOk), or when the tenant takes the   *)
(* body's shape (accept: the full object, the JSON:API envelope); every    *)
(* other                                                                   *)
(* write is answered by the periodic failure pattern: "404", another       *)
(* non-OK status ("400"), or "exc" (the transport raised).                 *)
(***************************************************************************)
Failures == {"404", "400", "exc"}

\* does this tenant take a write of this shape whenever it is sent?
Accepts(req) ==
    \/ req.ctype = "application/vnd.api+json" /\ "jsonapi" \in remote.accept
    \/ req.shape \in {"fetched_item", "inventory_item.fetched_item"}
          /\ "fetched_item" \in remote.accept

Respond(req, i) ==
    IF \/ remote.okAt # 0 /\ (i = remote.okAt \/ (i > remote.okAt /\ remote.thenOk))
       \/ Accepts(req)
    THEN "200"
    ELSE remote.pat[(i % PatLen) + 1]

\* reads (GET) of one kind -- a single item, a single order, the inventory
\* listing -- are all answered alike by a given remote
RespondGet(kind) == remote.get[kind]

IsOk(r) == r = "200"

(***************************************************************************)
(* Nested candidate loops.  A cursor is the tuple of the loop indices,     *)
(* outermost first; sizes gives each loop's length.  Bump(c, sizes, lvl)   *)
(* is the cursor after the loop at depth lvl moves to its next element     *)
(* (deeper loops restart); <<>> when the outermost loop is exhausted.      *)
(* Leaving the iteration normally is Bump at the innermost depth; a        *)
(* `break` out of the loop at depth d is Bump at depth d - 1.              *)
(***************************************************************************)
RECURSIVE Bump(_, _, _)
Bump(c, sizes, lvl) ==
    IF lvl = 0 THEN <<>>
    ELSE IF c[lvl] < sizes[lvl]
         THEN [k \in 1..Len(c) |->
                 IF k < lvl THEN c[k] ELSE IF k = lvl THEN c[k] + 1 ELSE 1]
         ELSE Bump(c, sizes, lvl - 1)

First(sizes) ==
    IF \E k \in 1..Len(sizes) : sizes[k] = 0 THEN <<>>
    ELSE [k \in 1..Len(sizes) |-> 1]

(***************************************************************************)
(* URL families.                                                           *)
(***************************************************************************)
InventoryItemPaths(lid) ==
    << "/inventory-items/ID", "/api/v2/inventory-items/ID",
       "/inventory_items/ID", "/api/v2/inventory_items/ID" >>
    \o (IF lid
        THEN << "/labs/L/inventory-items/ID", "/api/v2/labs/L/inventory-items/ID",
                "/labs/L/inventory_items/ID", "/api/v2/labs/L/inventory_items/ID" >>
        ELSE <<>>)

InventoryGetPaths ==
    << "/inventory-items/ID", "/api/v2/inventory-items/ID", "/inventory_items/ID" >>

InventoryCreatePaths(lid) ==
    << "/inventory-items", "/api/v2/inventory-items",
       "/inventory_items", "/api/v2/inventory_items" >>
    \o (IF lid
        THEN << "/labs/L/inventory-items", "/api/v2/labs/L/inventory-items",
                "/labs/L/inventory_items", "/api/v2/labs/L/inventory_items" >>
        ELSE <<>>)

OrderRequestPaths ==
    << "/order-requests/ID", "/api/v2/order-requests/ID",
       "/order_requests/ID", "/api/v2/order_requests/ID" >>

JsonApiPaths(lid) ==
    << "/inventory-items/ID" >> \o (IF lid THEN << "/labs/L/inventory-items/ID" >> ELSE <<>>)

(***************************************************************************)
(* Requests, attempt-log entries, reports.                                 *)
(***************************************************************************)
Req(m, u, shape, q) ==
    [method |-> m, url |-> u, shape |-> shape, qty |-> q, ctype |-> "application/json"]
\* what the wire records of a request: the request, the answer it got, and the
\* part of the method that sent it
Sent(req, r) ==
    [method |-> req.method, url |-> req.url, shape |-> req.shape, qty |-> req.qty,
     ctype |-> req.ctype, answer |-> r, phase |-> cur.phase, by |-> op]
JsonApiReq(m, u, shape, q) ==
    [Req(m, u, shape, q) EXCEPT !.ctype = "application/vnd.api+json"]

\* an entry of `tries`: a status for an answered request, exc for a raised one
Entry(req, r) ==
    [url |-> req.url, method |-> req.method, shape |-> req.shape,
     status |-> IF r = "exc" THEN "" ELSE r, exc |-> r = "exc"]

Running == [kind |-> "none"]

\* a report handed back to the caller.  ok is the report's updated / created /
\* found / success flag, attempts its "attempts" key (None when the key is absent)
Report(okFlag, err, att) ==
    [kind |-> "return", ok |-> okFlag, error |-> err, attempts |-> att,
     item |-> None, target |-> None]

(***************************************************************************)
(* update_inventory_item                                                   *)
(***************************************************************************)
\* body_variants, in the order the method builds them
UIIBodyVariants(a) ==
    (IF IsSome(a.quantity)
     THEN << "quantity:str", "quantity:int", "inventory_item.quantity",
             "quantity_in_stock", "inventory_item.quantity_in_stock" >>
     ELSE <<>>)
    \o (IF a.fields
        THEN IF IsSome(a.quantity)
             THEN << "fields+quantity", "inventory_item.fields+quantity" >>
             ELSE << "fields", "inventory_item.fields" >>
        ELSE <<>>)
    \o (IF a.fields THEN << "fields", "inventory_item.fields" >> ELSE <<>>)

\* the quantity a body of the given shape carries
ShapeQty(shape, q) ==
    IF shape \in {"fields", "inventory_item.fields"} THEN None ELSE q

UIIMethods == << "PUT", "PATCH" >>
JsonApiMethods == << "PATCH", "PUT" >>
JsonApiTypes == << "inventory-items", "inventory_items" >>
JsonApiQtyKeys == << "quantity", "quantity_in_stock" >>
FallbackPutBodies == << "fetched_item", "inventory_item.fetched_item" >>

UIILoopSizes(a) ==
    << Len(InventoryItemPaths(cfg.lid)), Len(UIIBodyVariants(a)), Len(UIIMethods) >>
UIIJsonApiSizes(a) ==
    << Len(JsonApiPaths(cfg.lid)), Len(JsonApiTypes), Len(JsonApiQtyKeys),
       Len(JsonApiMethods) >>

UIIEnd == [phase |-> "end", idx |-> <<>>, got |-> ""]
UIIAtFbB(a) ==
    IF IsSome(a.quantity)
    THEN [phase |-> "fbB", idx |-> First(UIIJsonApiSizes(a)), got |-> ""]
    ELSE UIIEnd
UIIAtFbA(a) ==
    IF IsSome(a.quantity)
    THEN [phase |-> "fbA_get", idx |-> <<1>>, got |-> ""]
    ELSE UIIAtFbB(a)
UIIAtLoop(a) ==
    IF First(UIILoopSizes(a)) # <<>>
    THEN [phase |-> "loop", idx |-> First(UIILoopSizes(a)), got |-> ""]
    ELSE UIIAtFbA(a)
UIIStart(a) ==
    IF IsSome(a.quantity)
    THEN [phase |-> "primary", idx |-> <<1>>, got |-> ""]
    ELSE UIIAtLoop(a)

\* the request the method sends at cursor c
UIIRequest(a, c) ==
    CASE c.phase = "primary" ->
           Req("PUT", "/inventory-items/ID", "quantity:str", a.quantity)
      [] c.phase = "loop" ->
           Req(UIIMethods[c.idx[3]], InventoryItemPaths(cfg.lid)[c.idx[1]],
               UIIBodyVariants(a)[c.idx[2]],
               ShapeQty(UIIBodyVariants(a)[c.idx[2]], a.quantity))
      [] c.phase = "fbA_get" ->
           Req("GET", InventoryGetPaths[c.idx[1]], "", None)
      [] c.phase = "fbA_put" ->
           Req("PUT", c.got, FallbackPutBodies[c.idx[1]], a.quantity)
      [] c.phase = "fbB" ->
           JsonApiReq(JsonApiMethods[c.idx[4]], JsonApiPaths(cfg.lid)[c.idx[1]],
               "jsonapi:" \o JsonApiTypes[c.idx[2]] \o ":" \o JsonApiQtyKeys[c.idx[3]],
               a.quantity)

\* depth of the loop a 404 answer breaks out of, in the candidate loop and in
\* the JSON:API fallback (the innermost loop, over the methods)
UIIBreakDepth == 3
UIIJsonApiBreakDepth == 4

\* the cursor after a request at cursor c was answered r without success
UIINext(a, c, r) ==
    CASE c.phase = "primary" -> UIIAtLoop(a)
      [] c.phase = "loop" ->
           LET d == IF r = "404" THEN UIIBreakDepth - 1 ELSE Len(c.idx)
               n == Bump(c.idx, UIILoopSizes(a), d)
           IN IF n = <<>> THEN UIIAtFbA(a) ELSE [c EXCEPT !.idx = n]
      [] c.phase = "fbA_get" ->
           IF IsOk(r)
           THEN [phase |-> "fbA_put", idx |-> <<1>>, got |-> InventoryGetPaths[c.idx[1]]]
           ELSE IF c.idx[1] < Len(InventoryGetPaths)
                THEN [c EXCEPT !.idx = <<c.idx[1] + 1>>]
                ELSE UIIAtFbB(a)
      [] c.phase = "fbA_put" ->
           IF c.idx[1] < Len(FallbackPutBodies)
           THEN [c EXCEPT !.idx = <<c.idx[1] + 1>>]
           ELSE UIIAtFbB(a)
      [] c.phase = "fbB" ->
           LET d == IF r = "404" THEN UIIJsonApiBreakDepth - 1 ELSE Len(c.idx)
               n == Bump(c.idx, UIIJsonApiSizes(a), d)
           IN IF n = <<>> THEN UIIEnd ELSE [c EXCEPT !.idx = n]

\* does an OK answer at cursor c end the method with a success report?
UIISucceeds(c, r) == IsOk(r) /\ c.phase # "fbA_get"

\* a failure report that loses the last attempt of the log
UIIFailureShort(log) ==
    Report(FALSE, "no_variant_succeeded",
           Some(IF log = <<>> THEN log ELSE SubSeq(log, 1, Len(log) - 1)))

UIIFailure(log) == Report(FALSE, "no_variant_succeeded", Some(log))
UIISuccess(log) == Report(TRUE, "", Some(log))

\* entry: the guard on item_id, then the first candidate (or the failure
\* report at once when there is nothing to try)
update_inventory_item_call ==
    /\ op = "update_inventory_item" /\ cur.phase = "call"
    /\ IF Falsy(args.item_id)
       THEN /\ ret' = Report(FALSE, "missing_item_id", None)
            /\ cur' = UIIEnd
       ELSE /\ cur' = UIIStart(args)
            /\ ret' = IF UIIStart(args).phase = "end" THEN UIIFailure(<<>>) ELSE ret
    /\ UNCHANGED <<svc, now, src, fx, remote, cfg, h, op, args, tries, wire>>

\* one request of the method and everything it does with the answer
update_inventory_item ==
    /\ op = "update_inventory_item"
    /\ cur.phase \in {"primary", "loop", "fbA_get", "fbA_put", "fbB"}
    /\ ret.kind = "none"
    /\ LET req == UIIRequest(args, cur)
           r == IF req.method = "GET" THEN RespondGet("item")
                ELSE Respond(req, Len(wire) + 1)
           log == Append(tries, Entry(req, r))
           nxt == UIINext(args, cur, r)
       IN /\ wire' = Append(wire, Sent(req, r))
          /\ tries' = log
          /\ IF UIISucceeds(cur, r)
             THEN /\ ret' = UIISuccess(log)
                  /\ cur' = UIIEnd
             ELSE /\ cur' = nxt
                  /\ ret' = IF nxt.phase = "end" THEN UIIFailure(log) ELSE ret
    /\ UNCHANGED <<svc, now, src, fx, remote, cfg, h, op, args>>

(***************************************************************************)
(* str.upper / str.lower / str.capitalize on the status words in use.      *)
(***************************************************************************)
StatusWords ==
    { "RECEIVED", "received", "Received", "ORDERED", "ordered", "Ordered", "" }
Upper(s) ==
    CASE s \in {"RECEIVED", "received", "Received"} -> "RECEIVED"
      [] s \in {"ORDERED", "ordered", "Ordered"} -> "ORDERED"
      [] s \in {"PENDING", "pending"} -> "PENDING"
      [] OTHER -> s
Lower(s) ==
    CASE s \in {"RECEIVED", "received", "Received"} -> "received"
      [] s \in {"ORDERED", "ordered", "Ordered"} -> "ordered"
      [] s \in {"PENDING", "pending"} -> "pending"
      [] OTHER -> s
Capitalize(s) ==
    CASE s \in {"RECEIVED", "received", "Received"} -> "Received"
      [] s \in {"ORDERED", "ordered", "Ordered"} -> "Ordered"
      [] OTHER -> s

\* list(dict.fromkeys(xs)): xs without repeats, first occurrences kept in order
RECURSIVE Dedup(_)
Dedup(xs) ==
    IF xs = <<>> THEN <<>>
    ELSE LET front == Dedup(SubSeq(xs, 1, Len(xs) - 1))
             last == xs[Len(xs)]
         IN IF \E k \in 1..Len(front) : front[k] = last
            THEN front ELSE Append(front, last)

(***************************************************************************)
(* update_order_request_status                                             *)
(***************************************************************************)
StatusVariants(new_status) ==
    IF new_status # ""
    THEN Dedup(<< new_status, Upper(new_status), Lower(new_status),
                  Capitalize(new_status) >>)
    ELSE << "RECEIVED", "received" >>

StatusBodies == << "status", "order_request.status", "order_status" >>
OrderMethods == << "PUT", "PATCH" >>

UORSSizes(a) ==
    << Len(OrderRequestPaths), Len(StatusVariants(a.new_status)),
       Len(StatusBodies), Len(OrderMethods) >>

UORSRequest(a, c) ==
    Req(OrderMethods[c.idx[4]], OrderRequestPaths[c.idx[1]],
        StatusBodies[c.idx[3]] \o "=" \o StatusVariants(a.new_status)[c.idx[2]], None)

\* a 404 breaks out of the loop over the bodies (depth 3 of url/status/body/method)
UORSBreakDepth == 3

UORSNext(a, c, r) ==
    LET d == IF r = "404" THEN UORSBreakDepth - 1 ELSE Len(c.idx)
        n == Bump(c.idx, UORSSizes(a), d)
    IN IF n = <<>> THEN UIIEnd ELSE [c EXCEPT !.idx = n]

\* the success report of the order-request writers has no "attempts" key
OrderWriteSuccess(log) == Report(TRUE, "", None)
OrderWriteFailure(log) == Report(FALSE, "no_variant_succeeded", Some(log))

update_order_request_status_call ==
    /\ op = "update_order_request_status" /\ cur.phase = "call"
    /\ IF Falsy(args.order_id)
       THEN ret' = Report(FALSE, "missing_order_id", None) /\ cur' = UIIEnd
       ELSE IF ~cfg.enabled
            THEN /\ ret' = Report(FALSE, "quartzy_disabled_or_token_missing", None)
                 /\ cur' = UIIEnd
            ELSE /\ cur' = [phase |-> "loop", idx |-> First(UORSSizes(args)), got |-> ""]
                 /\ ret' = ret
    /\ UNCHANGED <<svc, now, src, fx, remote, cfg, h, op, args, tries, wire>>

update_order_request_status ==
    /\ op = "update_order_request_status" /\ cur.phase = "loop"
    /\ ret.kind = "none"
    /\ LET req == UORSRequest(args, cur)
           r == Respond(req, Len(wire) + 1)
           log == Append(tries, Entry(req, r))
           nxt == UORSNext(args, cur, r)
       IN /\ wire' = Append(wire, Sent(req, r))
          /\ tries' = log
          /\ IF IsOk(r)
             THEN ret' = OrderWriteSuccess(log) /\ cur' = UIIEnd
             ELSE /\ cur' = nxt
                  /\ ret' = IF nxt.phase = "end" THEN OrderWriteFailure(log) ELSE ret
    /\ UNCHANGED <<svc, now, src, fx, remote, cfg, h, op, args>>

(***************************************************************************)
(* update_order_request_notes                                              *)
(***************************************************************************)
NotesBodies ==
    << "notes", "order_request.notes", "comment", "comments", "order_request.comment" >>

UORNSizes == << Len(OrderRequestPaths), Len(NotesBodies), Len(OrderMethods) >>

UORNRequest(c) ==
    Req(OrderMethods[c.idx[3]], OrderRequestPaths[c.idx[1]], NotesBodies[c.idx[2]], None)

\* a 404 breaks out of the loop over the bodies (depth 2 of url/body/method)
UORNBreakDepth == 2

UORNNext(c, r) ==
    LET d == IF r = "404" THEN UORNBreakDepth - 1 ELSE Len(c.idx)
        n == Bump(c.idx, UORNSizes, d)
    IN IF n = <<>> THEN UIIEnd ELSE [c EXCEPT !.idx = n]

update_order_request_notes_call ==
    /\ op = "update_order_request_notes" /\ cur.phase = "call"
    /\ IF Falsy(args.order_id)
       THEN ret' = Report(FALSE, "missing_order_id", None) /\ cur' = UIIEnd
       ELSE IF ~args.has_notes
            THEN ret' = Report(FALSE, "missing_notes", None) /\ cur' = UIIEnd
            ELSE IF ~cfg.enabled
                 THEN /\ ret' = Report(FALSE, "quartzy_disabled_or_token_missing", None)
                      /\ cur' = UIIEnd
                 ELSE /\ cur' = [phase |-> "loop", idx |-> First(UORNSizes), got |-> ""]
                      /\ ret' = ret
    /\ UNCHANGED <<svc, now, src, fx, remote, cfg, h, op, args, tries, wire>>

update_order_request_notes ==
    /\ op = "update_order_request_notes" /\ cur.phase = "loop"
    /\ ret.kind = "none"
    /\ LET req == UORNRequest(cur)
           r == Respond(req, Len(wire) + 1)
           log == Append(tries, Entry(req, r))
           nxt == UORNNext(cur, r)
       IN /\ wire' = Append(wire, Sent(req, r))
          /\ tries' = log
          /\ IF IsOk(r)
             THEN ret' = OrderWriteSuccess(log) /\ cur' = UIIEnd
             ELSE /\ cur' = nxt
                  /\ ret' = IF nxt.phase = "end" THEN OrderWriteFailure(log) ELSE ret
    /\ UNCHANGED <<svc, now, src, fx, remote, cfg, h, op, args>>

(***************************************************************************)
(* create_inventory_item                                                   *)
(***************************************************************************)
CreateBodies(a) ==
    << "direct" >> \o (IF a.vendor THEN << "direct:vendor_name" >> ELSE <<>>)
    \o << "inventory_item" >>
    \o (IF a.vendor THEN << "inventory_item:vendor_name" >> ELSE <<>>)

LocationVariants(a) ==
    << "" >>
    \o (IF a.location THEN << "location.name", "location" >> ELSE <<>>)
    \o (IF a.sub_location
        THEN << "sublocation.name", "sub_location.name", "sublocation", "sub_location" >>
        ELSE <<>>)

CreateSizes(a) ==
    << Len(InventoryCreatePaths(cfg.lid)), Len(CreateBodies(a)), Len(LocationVariants(a)) >>

CreateRequest(a, c) ==
    IF c.phase = "loop"
    THEN Req("POST", InventoryCreatePaths(cfg.lid)[c.idx[1]],
             CreateBodies(a)[c.idx[2]] \o "+" \o LocationVariants(a)[c.idx[3]],
             a.quantity)
    ELSE JsonApiReq("POST", InventoryCreatePaths(cfg.lid)[c.idx[1]], "jsonapi", a.quantity)

\* a 404 breaks out of the loop over the location variants (depth 3 of
\* path/core/locv); the JSON:API pass has no break
CreateBreakDepth == 3

CreateNext(a, c, r) ==
    IF c.phase = "loop"
    THEN LET d == IF r = "404" THEN CreateBreakDepth - 1 ELSE Len(c.idx)
             n == Bump(c.idx, CreateSizes(a), d)
         IN IF n = <<>> THEN [phase |-> "jsonapi", idx |-> <<1>>, got |-> ""]
            ELSE [c EXCEPT !.idx = n]
    ELSE IF c.idx[1] < Len(InventoryCreatePaths(cfg.lid))
         THEN [c EXCEPT !.idx = <<c.idx[1] + 1>>]
         ELSE UIIEnd

create_inventory_item_call ==
    /\ op = "create_inventory_item" /\ cur.phase = "call"
    /\ IF Falsy(args.item_name)
       THEN ret' = Report(FALSE, "item_name required", None) /\ cur' = UIIEnd
       ELSE cur' = [phase |-> "loop", idx |-> First(CreateSizes(args)), got |-> ""]
            /\ ret' = ret
    /\ UNCHANGED <<svc, now, src, fx, remote, cfg, h, op, args, tries, wire>>

create_inventory_item ==
    /\ op = "create_inventory_item" /\ cur.phase \in {"loop", "jsonapi"}
    /\ ret.kind = "none"
    /\ LET req == CreateRequest(args, cur)
           r == Respond(req, Len(wire) + 1)
           log == Append(tries, Entry(req, r))
           nxt == CreateNext(args, cur, r)
       IN /\ wire' = Append(wire, Sent(req, r))
          /\ tries' = log
          /\ IF IsOk(r)
             THEN ret' = UIISuccess(log) /\ cur' = UIIEnd
             ELSE /\ cur' = nxt
                  /\ ret' = IF nxt.phase = "end" THEN UIIFailure(log) ELSE ret
    /\ UNCHANGED <<svc, now, src, fx, remote, cfg, h, op, args>>

(***************************************************************************)
(* get_inventory_item, get_order_request, strict_inventory_match           *)
(***************************************************************************)
Found(it) == [Report(TRUE, "", None) EXCEPT !.item = Some(it)]

get_inventory_item_call ==
    /\ op = "get_inventory_item" /\ cur.phase = "call"
    /\ IF Falsy(args.item_id)
       THEN ret' = Report(FALSE, "missing_item_id", None) /\ cur' = UIIEnd
       ELSE cur' = [phase |-> "get", idx |-> <<1>>, got |-> ""] /\ ret' = ret
    /\ UNCHANGED <<svc, now, src, fx, remote, cfg, h, op, args, tries, wire>>

\* one GET of the loop over the three item paths
get_inventory_item ==
    /\ op = "get_inventory_item" /\ cur.phase = "get"
    /\ ret.kind = "none"
    /\ LET req == Req("GET", InventoryGetPaths[cur.idx[1]], "", None)
           r == RespondGet("item")
           log == Append(tries, Entry(req, r))
       IN /\ wire' = Append(wire, Sent(req, r))
          /\ tries' = log
          /\ IF IsOk(r)
             THEN ret' = Found(remote.item) /\ cur' = UIIEnd
             ELSE IF cur.idx[1] < Len(InventoryGetPaths)
                  THEN cur' = [cur EXCEPT !.idx = <<cur.idx[1] + 1>>] /\ ret' = ret
                  ELSE ret' = Report(FALSE, "not_found", Some(log)) /\ cur' = UIIEnd
    /\ UNCHANGED <<svc, now, src, fx, remote, cfg, h, op, args>>

\* the whole method: the guard, then the single GET of /order-requests/{id}
get_order_request ==
    /\ op = "get_order_request" /\ cur.phase = "call"
    /\ IF Falsy(args.order_id)
       THEN /\ ret' = Report(FALSE, "missing_order_id", None)
            /\ UNCHANGED <<tries, wire>>
       ELSE LET req == Req("GET", "/order-requests/ID", "", None)
                r == RespondGet("order")
                log == Append(tries, Entry(req, r))
            IN /\ wire' = Append(wire, Sent(req, r))
               /\ tries' = log
               /\ ret' = IF IsOk(r) THEN Found(remote.order)
                         ELSE IF r = "exc" THEN Report(FALSE, "exception", Some(log))
                         ELSE Report(FALSE, "", Some(log))
    /\ cur' = UIIEnd
    /\ UNCHANGED <<svc, now, src, fx, remote, cfg, h, op, args>>

\* the strict match reads the inventory listing and looks the order's item up
\* in it; the listing is read by one GET here (the paged fetch is modelled on
\* its own below), and whether the item is in it is the remote's
strict_inventory_match ==
    /\ op = "strict_inventory_match" /\ cur.phase = "call"
    /\ LET req == Req("GET", "/inventory-items", "", None)
           r == RespondGet("list")
       IN /\ wire' = Append(wire, Sent(req, r))
          /\ ret' = IF IsOk(r) /\ remote.listed
                    THEN Found(remote.item) ELSE Report(FALSE, "", None)
    /\ cur' = UIIEnd
    /\ UNCHANGED <<svc, now, src, fx, remote, cfg, h, op, args, tries>>

(***************************************************************************)
(* Calls from a handler into the service.                                  *)
(***************************************************************************)
Enter(method, a) ==
    /\ op' = method
    /\ args' = a
    /\ cur' = [phase |-> "call", idx |-> <<>>, got |-> ""]
    /\ tries' = <<>>
    /\ ret' = Running

UIIArgs(id, q, withFields) == [item_id |-> id, quantity |-> q, fields |-> withFields]

\* the first parseable quantity of an item payload, int(str(v).split(".")[0])
ItemQuantity(it) == it.quantity

Returned == ret.kind = "return"
Respond_(hh, report) == [hh EXCEPT !.stage = "done", !.resp = report]

(***************************************************************************)
(* POST /inventory/update (app/api/quartzy.py)                             *)
(***************************************************************************)
\* qty_to_set of an additive update, from the report of get_inventory_item
InventoryUpdateTarget(current, add_quantity) ==
    LET raw == IF IsSome(current.item) THEN Val(current.item) ELSE [quantity |-> None]
        existing == IF IsSome(ItemQuantity(raw)) THEN Val(ItemQuantity(raw)) ELSE 0
    IN existing + add_quantity

inventory_update_begin ==
    /\ h.name = "inventory_update" /\ h.stage = "begin"
    /\ LET p == h.payload
       IN IF Falsy(p.item_id)
          THEN /\ h' = Respond_(h, Report(FALSE, "item_id required", None))
               /\ UNCHANGED <<op, args, cur, tries, ret>>
          ELSE IF IsSome(p.new_quantity)
          THEN /\ h' = [h EXCEPT !.stage = "write", !.target = p.new_quantity]
               /\ Enter("update_inventory_item", UIIArgs(p.item_id, p.new_quantity, FALSE))
          ELSE IF IsSome(p.add_quantity)
          THEN /\ h' = [h EXCEPT !.stage = "read"]
               /\ Enter("get_inventory_item", [item_id |-> p.item_id])
          ELSE /\ h' = Respond_(h, Report(FALSE, "no_quantity_provided", None))
               /\ UNCHANGED <<op, args, cur, tries, ret>>
    /\ UNCHANGED <<svc, now, src, fx, remote, cfg, wire>>

inventory_update_read ==
    /\ h.name = "inventory_update" /\ h.stage = "read" /\ Returned
    /\ LET t == InventoryUpdateTarget(ret, Val(h.payload.add_quantity))
       IN /\ h' = [h EXCEPT !.stage = "write", !.target = Some(t)]
          /\ Enter("update_inventory_item", UIIArgs(h.payload.item_id, Some(t), FALSE))
    /\ UNCHANGED <<svc, now, src, fx, remote, cfg, wire>>

inventory_update_write ==
    /\ h.name = "inventory_update" /\ h.stage = "write" /\ Returned
    /\ h' = Respond_(h, [ret EXCEPT !.target = h.target])
    /\ UNCHANGED <<svc, now, src, fx, remote, cfg, op, args, cur, tries, wire, ret>>

(***************************************************************************)
(* receive_order_basic                                                     *)
(***************************************************************************)
\* recv_qty: the quantity given, else the order's, else 1
ReceivedQty(received_quantity, order) ==
    IF IsSome(received_quantity) THEN Val(received_quantity)
    ELSE IF IsSome(order.quantity) THEN Val(order.quantity)
    ELSE 1

\* target_qty, from the report of get_inventory_item (current_qty starts at 0)
ReceiveTarget(curr, recv_qty) ==
    LET raw == IF IsSome(curr.item) THEN Val(curr.item) ELSE [quantity |-> None]
        current_qty == IF IsSome(ItemQuantity(raw)) THEN Val(ItemQuantity(raw)) ELSE 0
    IN Max(0, current_qty + recv_qty)

receive_order_basic_begin ==
    /\ h.name = "receive_order_basic" /\ h.stage = "begin"
    /\ IF Falsy(h.payload.order_id)
       THEN /\ h' = Respond_(h, Report(FALSE, "missing_order_id", None))
            /\ UNCHANGED <<op, args, cur, tries, ret>>
       ELSE /\ h' = [h EXCEPT !.stage = "order"]
            /\ Enter("get_order_request", [order_id |-> h.payload.order_id])
    /\ UNCHANGED <<svc, now, src, fx, remote, cfg, wire>>

receive_order_basic_order ==
    /\ h.name = "receive_order_basic" /\ h.stage = "order" /\ Returned
    /\ IF ~ret.ok
       THEN /\ h' = Respond_(h, Report(FALSE, "order_not_found", None))
            /\ UNCHANGED <<op, args, cur, tries, ret>>
       ELSE /\ h' = [h EXCEPT !.stage = "match",
                              !.recv = ReceivedQty(h.payload.received_quantity, Val(ret.item))]
            /\ Enter("strict_inventory_match", [order_id |-> h.payload.order_id])
    /\ UNCHANGED <<svc, now, src, fx, remote, cfg, wire>>

\* the workflow going on to the stock update whatever the strict match said
receive_order_basic_match_anyway ==
    /\ h.name = "receive_order_basic" /\ h.stage = "match" /\ Returned
    /\ h' = [h EXCEPT !.stage = "read"]
    /\ Enter("get_inventory_item", [item_id |-> "i1"])
    /\ UNCHANGED <<svc, now, src, fx, remote, cfg, wire>>

receive_order_basic_match ==
    /\ h.name = "receive_order_basic" /\ h.stage = "match" /\ Returned
    /\ IF ~ret.ok
       THEN /\ h' = Respond_(h, Report(FALSE, "no_inventory_match", None))
            /\ UNCHANGED <<op, args, cur, tries, ret>>
       ELSE /\ h' = [h EXCEPT !.stage = "read"]
            /\ Enter("get_inventory_item", [item_id |-> "i1"])
    /\ UNCHANGED <<svc, now, src, fx, remote, cfg, wire>>

receive_order_basic_read ==
    /\ h.name = "receive_order_basic" /\ h.stage = "read" /\ Returned
    /\ LET t == ReceiveTarget(ret, h.recv)
       IN /\ h' = [h EXCEPT !.stage = "write", !.target = Some(t)]
          /\ Enter("update_inventory_item", UIIArgs("i1", Some(t), FALSE))
    /\ UNCHANGED <<svc, now, src, fx, remote, cfg, wire>>

receive_order_basic_write ==
    /\ h.name = "receive_order_basic" /\ h.stage = "write" /\ Returned
    /\ h' = [h EXCEPT !.stage = "status", !.upd = ret]
    /\ Enter("update_order_request_status",
             [order_id |-> h.payload.order_id, new_status |-> "RECEIVED"])
    /\ UNCHANGED <<svc, now, src, fx, remote, cfg, wire>>

receive_order_basic_status ==
    /\ h.name = "receive_order_basic" /\ h.stage = "status" /\ Returned
    /\ h' = Respond_(h, [Report(h.upd.ok /\ ret.ok, "", h.upd.attempts)
                           EXCEPT !.target = h.target])
    /\ UNCHANGED <<svc, now, src, fx, remote, cfg, op, args, cur, tries, wire, ret>>

(***************************************************************************)
(* submit_reception._do_inventory_upsert (app/api/submission.py)           *)
(***************************************************************************)
\* find_inventory_match_best, read like the strict match above
find_inventory_match_best ==
    /\ op = "find_inventory_match_best" /\ cur.phase = "call"
    /\ LET req == Req("GET", "/inventory-items", "", None)
           r == RespondGet("list")
       IN /\ wire' = Append(wire, Sent(req, r))
          /\ ret' = IF IsOk(r) /\ remote.listed
                    THEN Found(remote.item) ELSE Report(FALSE, "", None)
    /\ cur' = UIIEnd
    /\ UNCHANGED <<svc, now, src, fx, remote, cfg, h, op, args, tries>>

\* received_qty = int(str(payload.quantity or "").strip() or 0)
UpsertReceived(quantity) == IF IsSome(quantity) THEN Val(quantity) ELSE 0

\* new_qty: None unless the item was found with a quantity
UpsertNewQty(curr, received_qty) ==
    IF curr.ok /\ IsSome(curr.item) /\ IsSome(Val(curr.item).quantity)
    THEN Some(Max(0, Val(Val(curr.item).quantity) + received_qty))
    ELSE None

\* the quantity argument handed to update_inventory_item
UpsertQuantityArg(new_qty, quantity) == IF IsSome(new_qty) THEN new_qty ELSE quantity

do_inventory_upsert_begin ==
    /\ h.name = "do_inventory_upsert" /\ h.stage = "begin"
    /\ IF ~Falsy(h.payload.inventory_item_id)
       THEN /\ h' = [h EXCEPT !.stage = "read"]
            /\ Enter("get_inventory_item", [item_id |-> h.payload.inventory_item_id])
       ELSE /\ h' = [h EXCEPT !.stage = "match"]
            /\ Enter("find_inventory_match_best", [order_id |-> ""])
    /\ UNCHANGED <<svc, now, src, fx, remote, cfg, wire>>

do_inventory_upsert_match ==
    /\ h.name = "do_inventory_upsert" /\ h.stage = "match" /\ Returned
    /\ IF ~ret.ok
       THEN /\ h' = Respond_(h, Report(FALSE, "not_matched", None))
            /\ UNCHANGED <<op, args, cur, tries, ret>>
       ELSE /\ h' = [h EXCEPT !.stage = "read"]
            /\ Enter("get_inventory_item", [item_id |-> "i1"])
    /\ UNCHANGED <<svc, now, src, fx, remote, cfg, wire>>

do_inventory_upsert_read ==
    /\ h.name = "do_inventory_upsert" /\ h.stage = "read" /\ Returned
    /\ LET received_qty == UpsertReceived(h.payload.quantity)
           new_qty == UpsertNewQty(ret, received_qty)
       IN /\ h' = [h EXCEPT !.stage = "write", !.recv = received_qty, !.target = new_qty]
          /\ Enter("update_inventory_item",
                   UIIArgs("i1", UpsertQuantityArg(new_qty, h.payload.quantity),
                           h.payload.fields))
    /\ UNCHANGED <<svc, now, src, fx, remote, cfg, wire>>

\* an upsert that starts the UI job whatever the API update reported
do_inventory_upsert_write_always ==
    /\ h.name = "do_inventory_upsert" /\ h.stage = "write" /\ Returned
    /\ h' = [Respond_(h, [ret EXCEPT !.target = h.target])
               EXCEPT !.ui_jobs = h.ui_jobs + 1]
    /\ UNCHANGED <<svc, now, src, fx, remote, cfg, op, args, cur, tries, wire, ret>>

\* the UI fallback job is started only if the API update failed
do_inventory_upsert_write ==
    /\ h.name = "do_inventory_upsert" /\ h.stage = "write" /\ Returned
    /\ h' = [Respond_(h, [ret EXCEPT !.target = h.target])
               EXCEPT !.ui_jobs = IF ret.ok THEN h.ui_jobs ELSE h.ui_jobs + 1]
    /\ UNCHANGED <<svc, now, src, fx, remote, cfg, op, args, cur, tries, wire, ret>>

(***************************************************************************)
(* One call of the client.                                                 *)
(***************************************************************************)
Frame(name, payload) ==
    [name |-> name, stage |-> "begin", payload |-> payload, recv |-> 0,
     target |-> None, upd |-> Running, resp |-> Running, ui_jobs |-> 0]

\* a direct call of a service method: the caller's frame only waits for it
Direct == [Frame("direct", <<>>) EXCEPT !.stage = "wait"]

BaseRemote ==
    [okAt |-> 0, thenOk |-> FALSE, pat |-> [k \in 1..PatLen |-> "400"],
     accept |-> {},
     get |-> [item |-> "200", order |-> "200", list |-> "200"],
     item |-> [quantity |-> Some(1)], order |-> [quantity |-> Some(1)],
     listed |-> TRUE]

Patterns == [1..PatLen -> Failures]
Quantities == {None} \cup {Some(q) : q \in 0..MaxQty}
Deltas == {None} \cup {Some(d) : d \in (0 - MaxQty)..MaxQty}
Call == [phase |-> "call", idx |-> <<>>, got |-> ""]
Idle == [phase |-> "end", idx |-> <<>>, got |-> ""]

\* the calls of update_inventory_item: <<item_id, quantity, fields given, lab id set>>
UIICalls ==
    { <<"", Some(1), FALSE, FALSE>>, <<"i1", None, FALSE, FALSE>>,
      <<"i1", Some(1), FALSE, FALSE>>, <<"i1", Some(1), FALSE, TRUE>>,
      <<"i1", Some(1), TRUE, FALSE>>, <<"i1", None, TRUE, FALSE>> }
\* the tenants it is run against: <<answer to a GET of the item, shapes taken>>
UIITenants ==
    { <<"200", {}>>, <<"exc", {}>>, <<"200", {"fetched_item"}>>, <<"404", {"jsonapi"}>> }
\* the calls of create_inventory_item: <<name, vendor, location, sub-location given>>
CreateCalls ==
    { <<"", FALSE, FALSE, FALSE>>, <<"n1", FALSE, FALSE, FALSE>>,
      <<"n1", TRUE, TRUE, FALSE>>, <<"n1", FALSE, FALSE, TRUE>> }

\* direct calls of the writers and readers, against every remote of the family
InitDirect ==
    /\ h = Direct
    /\ cur = Call
    /\ \/ /\ op = "update_inventory_item"
          /\ \E c \in UIICalls :
                /\ args = UIIArgs(c[1], c[2], c[3])
                /\ cfg = [lid |-> c[4], enabled |-> TRUE]
          /\ remote \in {[BaseRemote EXCEPT !.okAt = k, !.pat = p, !.get.item = t[1],
                                            !.accept = t[2]] :
                           k \in 0..MaxOkAt, p \in Patterns, t \in UIITenants}
       \/ /\ op = "update_order_request_status"
          /\ args \in {[order_id |-> id, new_status |-> st] :
                         id \in {"", "o1"}, st \in {"RECEIVED", ""}}
          /\ cfg \in {[lid |-> FALSE, enabled |-> e] : e \in BOOLEAN}
          /\ remote \in {[BaseRemote EXCEPT !.okAt = k, !.pat = p] :
                           k \in 0..MaxOkAt, p \in Patterns}
       \/ /\ op = "update_order_request_notes"
          /\ args \in {[order_id |-> id, has_notes |-> n] :
                         id \in {"", "o1"}, n \in BOOLEAN}
          /\ cfg \in {[lid |-> FALSE, enabled |-> e] : e \in BOOLEAN}
          /\ remote \in {[BaseRemote EXCEPT !.okAt = k, !.pat = p] :
                           k \in 0..MaxOkAt, p \in Patterns}
       \/ /\ op = "create_inventory_item"
          /\ args \in {[item_name |-> c[1], vendor |-> c[2], location |-> c[3],
                        sub_location |-> c[4], quantity |-> Some(1)] : c \in CreateCalls}
          /\ cfg \in {[lid |-> l, enabled |-> TRUE] : l \in BOOLEAN}
          /\ remote \in {[BaseRemote EXCEPT !.okAt = k, !.pat = p, !.accept = acc] :
                           k \in 0..MaxOkAt, p \in Patterns, acc \in {{}, {"jsonapi"}}}
       \/ /\ op = "get_inventory_item"
          /\ args \in {[item_id |-> id] : id \in {"", "i1"}}
          /\ cfg = [lid |-> FALSE, enabled |-> TRUE]
          /\ remote \in {[BaseRemote EXCEPT !.get.item = g, !.item.quantity = q] :
                           g \in {"200", "404", "400", "exc"}, q \in Quantities}
       \/ /\ op = "get_order_request"
          /\ args \in {[order_id |-> id] : id \in {"", "o1"}}
          /\ cfg = [lid |-> FALSE, enabled |-> TRUE]
          /\ remote \in {[BaseRemote EXCEPT !.get.order = g] :
                           g \in {"200", "404", "exc"}}

\* the write behaviours the handlers are run against, <<okAt, thenOk>>: every
\* write refused, every write accepted
HandlerWrites == { <<0, FALSE>>, <<1, TRUE>> }

InitHandlers ==
    /\ op = "none" /\ args = <<>> /\ cur = Idle
    /\ cfg = [lid |-> FALSE, enabled |-> TRUE]
    /\ \/ /\ h \in {Frame("inventory_update",
                          [item_id |-> id, new_quantity |-> nq, add_quantity |-> d]) :
                      id \in {"", "i1"}, nq \in {None, Some(MaxQty)}, d \in Deltas}
          /\ remote \in {[BaseRemote EXCEPT !.get.item = g, !.item.quantity = q,
                                            !.okAt = w[1], !.thenOk = w[2]] :
                           g \in {"200", "404", "exc"}, q \in Quantities,
                           w \in HandlerWrites}
       \/ /\ h \in {Frame("receive_order_basic",
                          [order_id |-> id, received_quantity |-> d]) :
                      id \in {"", "o1"}, d \in Deltas}
          /\ remote \in {[BaseRemote EXCEPT !.get.order = go, !.listed = li,
                                            !.get.item = g, !.item.quantity = q,
                                            !.order.quantity = oq,
                                            !.okAt = w[1], !.thenOk = w[2]] :
                           go \in {"200", "400"}, li \in BOOLEAN,
                           g \in {"200", "404"}, q \in Quantities,
                           oq \in {None, Some(1)}, w \in HandlerWrites}
       \/ /\ h \in {Frame("do_inventory_upsert",
                          [inventory_item_id |-> id, quantity |-> q, fields |-> f]) :
                      id \in {"", "i1"}, q \in Quantities, f \in BOOLEAN}
          /\ remote \in {[BaseRemote EXCEPT !.listed = li,
                                            !.get.item = g, !.item.quantity = q,
                                            !.okAt = w[1], !.thenOk = w[2]] :
                           li \in BOOLEAN, g \in {"200", "404", "exc"},
                           q \in Quantities, w \in HandlerWrites}

(***************************************************************************)
(* create_or_update_inventory: the duplicate check, the API-create gate,   *)
(* the create and the location update that follows it.                     *)
(***************************************************************************)
\* find_inventory_match reads the inventory listing (one GET here) and looks
\* the item up in it; a listing that cannot be read holds no match
find_inventory_match ==
    /\ op = "find_inventory_match" /\ cur.phase = "call"
    /\ LET req == Req("GET", "/inventory-items", "", None)
           r == RespondGet("list")
       IN /\ wire' = Append(wire, Sent(req, r))
          /\ ret' = IF IsOk(r) /\ remote.listed
                    THEN Found(remote.item) ELSE Report(FALSE, "", None)
    /\ cur' = UIIEnd
    /\ UNCHANGED <<svc, now, src, fx, remote, cfg, h, op, args, tries>>

\* build_quartzy_add_link: the inventory page, with whatever prefill it takes
AddLink == "https://app.quartzy.com/inventory"

LocationBodies == << "location", "inventory_item.location" >>
LocationSizes == << Len(InventoryGetPaths), Len(LocationBodies) >>

\* try_update_item_location: a PATCH per path and body until one is accepted
try_update_item_location ==
    /\ op = "try_update_item_location" /\ cur.phase \in {"call", "loop"}
    /\ ret.kind = "none"
    /\ LET idx == IF cur.phase = "call" THEN First(LocationSizes) ELSE cur.idx
           req == Req("PATCH", InventoryGetPaths[idx[1]], LocationBodies[idx[2]], None)
           r == Respond(req, Len(wire) + 1)
           log == Append(tries, Entry(req, r))
           n == Bump(idx, LocationSizes, Len(idx))
       IN /\ wire' = Append(wire, [Sent(req, r) EXCEPT !.phase = "loop"])
          /\ tries' = log
          /\ IF IsOk(r)
             THEN ret' = UIISuccess(log) /\ cur' = UIIEnd
             ELSE IF n = <<>>
                  THEN ret' = UIIFailure(log) /\ cur' = UIIEnd
                  ELSE ret' = ret /\ cur' = [phase |-> "loop", idx |-> n, got |-> ""]
    /\ UNCHANGED <<svc, now, src, fx, remote, cfg, h, op, args>>

\* the report of create_or_update_inventory; a key the branch does not set is
\* read as false / None
CreateOrUpdateReport(created, exists, updated, skipped, needs_ui_add, prefill_url) ==
    [kind |-> "return", created |-> created, exists |-> exists, updated |-> updated,
     skipped |-> skipped, needs_ui_add |-> needs_ui_add, prefill_url |-> prefill_url]

\* a gate that lets the create through whenever the argument is not given
AllowCreateUnlessRefused(allow_api_create) ==
    IF IsSome(allow_api_create) THEN Val(allow_api_create) ELSE TRUE

\* allow_create: the argument when given, else the configuration flag
AllowCreate(allow_api_create) ==
    IF IsSome(allow_api_create) THEN Val(allow_api_create)
    ELSE cfg.allow_api_inventory_create

create_or_update_inventory_begin ==
    /\ h.name = "create_or_update_inventory" /\ h.stage = "begin"
    /\ h' = [h EXCEPT !.stage = "match"]
    /\ Enter("find_inventory_match", [order_id |-> ""])
    /\ UNCHANGED <<svc, now, src, fx, remote, cfg, wire>>

CreateArgs(p) ==
    [item_name |-> p.item_name, vendor |-> FALSE, location |-> p.location,
     sub_location |-> FALSE, quantity |-> p.quantity]

create_or_update_inventory_match ==
    /\ h.name = "create_or_update_inventory" /\ h.stage = "match" /\ Returned
    /\ LET p == h.payload
       IN IF ret.ok
          THEN IF p.if_exists = "update" /\ IsSome(p.quantity) /\ ~Falsy(Val(ret.item).id)
               THEN /\ h' = [h EXCEPT !.stage = "update"]
                    /\ Enter("update_inventory_item",
                             UIIArgs(Val(ret.item).id, p.quantity, FALSE))
               ELSE /\ h' = Respond_(h, CreateOrUpdateReport(FALSE, TRUE, FALSE, TRUE,
                                                              FALSE, None))
                    /\ UNCHANGED <<op, args, cur, tries, ret>>
          ELSE IF ~AllowCreate(p.allow_api_create)
               THEN /\ h' = Respond_(h, CreateOrUpdateReport(FALSE, FALSE, FALSE, FALSE,
                                                              TRUE, Some(AddLink)))
                    /\ UNCHANGED <<op, args, cur, tries, ret>>
               ELSE /\ h' = [h EXCEPT !.stage = "create"]
                    /\ Enter("create_inventory_item", CreateArgs(p))
    /\ UNCHANGED <<svc, now, src, fx, remote, cfg, wire>>

create_or_update_inventory_update ==
    /\ h.name = "create_or_update_inventory" /\ h.stage = "update" /\ Returned
    /\ h' = Respond_(h, CreateOrUpdateReport(FALSE, TRUE, ret.ok, FALSE, FALSE, None))
    /\ UNCHANGED <<svc, now, src, fx, remote, cfg, op, args, cur, tries, wire, ret>>

\* after the create: the location update when the answer carries the new id,
\* else the report (the failure report hands on the create's prefill link,
\* which a create refused for its empty name does not have)
create_or_update_inventory_create ==
    /\ h.name = "create_or_update_inventory" /\ h.stage = "create" /\ Returned
    /\ IF ret.ok
       THEN IF remote.created_id /\ h.payload.location
            THEN /\ h' = [h EXCEPT !.stage = "location"]
                 /\ Enter("try_update_item_location", [item_id |-> "i2"])
            ELSE /\ h' = Respond_(h, CreateOrUpdateReport(TRUE, FALSE, FALSE, FALSE,
                                                           FALSE, None))
                 /\ UNCHANGED <<op, args, cur, tries, ret>>
       ELSE /\ h' = Respond_(h, CreateOrUpdateReport(FALSE, FALSE, FALSE, FALSE, FALSE,
                                 IF ret.error = "item_name required"
                                 THEN None ELSE Some(AddLink)))
            /\ UNCHANGED <<op, args, cur, tries, ret>>
    /\ UNCHANGED <<svc, now, src, fx, remote, cfg, wire>>

create_or_update_inventory_location ==
    /\ h.name = "create_or_update_inventory" /\ h.stage = "location" /\ Returned
    /\ h' = Respond_(h, CreateOrUpdateReport(TRUE, FALSE, FALSE, FALSE, FALSE, None))
    /\ UNCHANGED <<svc, now, src, fx, remote, cfg, op, args, cur, tries, wire, ret>>

\* the remotes of the create: how writes are answered by position, a constant
\* refusal otherwise
CreateRemotes ==
    { [BaseRemote EXCEPT !.get.list = gl, !.listed = li,
                         !.item = [quantity |-> Some(1), id |-> id],
                         !.okAt = k, !.thenOk = (k = 1),
                         !.pat = [j \in 1..PatLen |-> f]]
        @@ [created_id |-> ci] :
        gl \in {"200", "exc"}, li \in BOOLEAN, id \in {"i1", ""},
        k \in {0, 1, MaxOkAt}, f \in Failures, ci \in BOOLEAN }

InitCreate ==
    /\ tries = <<>> /\ wire = <<>> /\ ret = Running
    /\ src = <<>> /\ fx = <<>>
    /\ svc = NewService(DefaultCacheTtl) /\ now = 0
    /\ op = "none" /\ args = <<>> /\ cur = Idle
    /\ cfg \in {[lid |-> FALSE, enabled |-> TRUE, allow_api_inventory_create |-> a] :
                  a \in BOOLEAN}
    /\ remote \in CreateRemotes
    /\ h \in {Frame("create_or_update_inventory",
                    [item_name |-> nm, quantity |-> q, if_exists |-> ie,
                     allow_api_create |-> al, location |-> lo]) :
                nm \in {"", "n1"}, q \in {None, Some(1)}, ie \in {"update", "skip"},
                al \in {None, Some(TRUE), Some(FALSE)}, lo \in BOOLEAN}

NextCreate ==
    \/ create_or_update_inventory_begin
    \/ find_inventory_match
    \/ create_or_update_inventory_match
    \/ update_inventory_item_call
    \/ update_inventory_item
    \/ create_or_update_inventory_update
    \/ create_inventory_item_call
    \/ create_inventory_item
    \/ create_or_update_inventory_create
    \/ try_update_item_location
    \/ create_or_update_inventory_location

SpecCreate == InitCreate /\ [][NextCreate]_vars

Init ==
    /\ tries = <<>> /\ wire = <<>> /\ ret = Running
    /\ src = <<>> /\ fx = <<>>
    /\ svc = NewService(DefaultCacheTtl) /\ now = 0
    /\ (InitDirect \/ InitHandlers)

Next ==
    \/ update_inventory_item_call
    \/ update_inventory_item
    \/ update_order_request_status_call
    \/ update_order_request_status
    \/ update_order_request_notes_call
    \/ update_order_request_notes
    \/ create_inventory_item_call
    \/ create_inventory_item
    \/ get_inventory_item_call
    \/ get_inventory_item
    \/ get_order_request
    \/ strict_inventory_match
    \/ find_inventory_match_best
    \/ inventory_update_begin
    \/ inventory_update_read
    \/ inventory_update_write
    \/ receive_order_basic_begin
    \/ receive_order_basic_order
    \/ receive_order_basic_match
    \/ receive_order_basic_read
    \/ receive_order_basic_write
    \/ receive_order_basic_status
    \/ do_inventory_upsert_begin
    \/ do_inventory_upsert_match
    \/ do_inventory_upsert_read
    \/ do_inventory_upsert_write

Spec == Init /\ [][Next]_vars

(***************************************************************************)
(* The paginated fetch engine.  A source is a paginated collection of the  *)
(* remote: pages 1..T are non-empty (a `forever` source goes on past T     *)
(* with pages of the tail value), the response headers advertise the       *)
(* pagination in one of three ways, and one page may fail.                 *)
(***************************************************************************)
PageSize == 2      \* items on a full page
MaxPages == 3      \* most non-empty pages of a finite source
MaxStride == 4     \* most workers of a stride scan

\* eff_page_size when the response advertises none
DefaultPageSize == 25

Min(a, b) == IF a <= b THEN a ELSE b

\* the statuses the items of a source carry, in rotation
StatusCycle == << "ORDERED", "ordered", "RECEIVED", "ORDERED ", "Received" >>

\* str.strip on the status words in use
Strip(s) == IF s = "ORDERED " THEN "ORDERED" ELSE s

\* how the fetch of page p is answered: "200", a non-OK status, or "exc"
PageAnswer(p) == IF p = src.failPage THEN src.failKind ELSE "200"

\* how a second request for page 1 is answered: like the first, or it raises
PageAnswerAgain == IF src.again = "same" THEN PageAnswer(1) ELSE src.again

\* the number of items page p holds
PageLen(p) ==
    IF p <= src.T
    THEN IF p = src.T /\ ~src.forever THEN src.lastLen ELSE PageSize
    ELSE IF src.forever THEN PageSize ELSE 0

\* the items of page p as the remote holds them
PageItems(p) ==
    [k \in 1..PageLen(p) |->
        [id |-> <<p, k>>,
         status |-> StatusCycle[((p * PageSize + k + src.mix) % Len(StatusCycle)) + 1],
         location |-> IF p <= src.T THEN src.vals[p][1] ELSE src.tail[1],
         sub_location |-> IF p <= src.T THEN src.vals[p][2] ELSE src.tail[2]]]

\* the pagination headers of the response for page p
PageHeaders(p) ==
    [x_page |-> IF src.advertise = "total" THEN Some(p) ELSE None,
     x_total_pages |-> IF src.advertise = "total" THEN Some(src.T) ELSE None,
     x_next_page |-> src.advertise = "next" /\ (src.forever \/ p < src.T),
     x_per_page |-> IF src.advertise = "size" THEN Some(PageSize) ELSE None]

\* _page_has_next_inventory and the header part of _list_order_requests_page:
\* <<has_next, total_pages>> from the headers and the number of items
PageHasNext(hd, items_len) ==
    LET eff_page_size == IF IsSome(hd.x_per_page) THEN Val(hd.x_per_page)
                         ELSE DefaultPageSize
        by_total == IsSome(hd.x_total_pages) /\ IsSome(hd.x_page)
                       /\ Val(hd.x_page) < Val(hd.x_total_pages)
    IN << by_total \/ hd.x_next_page \/ items_len = eff_page_size, hd.x_total_pages >>

\* _list_order_requests_page / _list_inventory_page for an answered request:
\* [items, has_next, total_pages]; a non-OK answer gives no items and no next
ListPage(p) ==
    IF PageAnswer(p) = "200"
    THEN LET m == PageHasNext(PageHeaders(p), PageLen(p))
         IN [items |-> PageItems(p), has_next |-> m[1], total_pages |-> m[2]]
    ELSE [items |-> <<>>, has_next |-> FALSE, total_pages |-> None]

\* a filter that compares the statuses as they are written
FilterAsWritten(items, statuses) ==
    IF statuses = <<>> THEN items
    ELSE SelectSeq(items, LAMBDA it :
             \E k \in 1..Len(statuses) : it.status = statuses[k])

\* _extract_status: the status of an item, stripped
ExtractStatus(it) == Strip(it.status)

\* _filter_by_status_exact
FilterByStatusExact(items, statuses) ==
    IF statuses = <<>> THEN items
    ELSE LET targets == { Upper(Strip(statuses[k])) :
                            k \in { j \in 1..Len(statuses) : Strip(statuses[j]) # "" } }
         IN SelectSeq(items, LAMBDA it : Upper(ExtractStatus(it)) \in targets)

(***************************************************************************)
(* The worker pool (ThreadPoolExecutor): submitted page fetches wait in    *)
(* queue, at most `workers` of them run, a finished one has landed until   *)
(* the calling thread takes its result.                                    *)
(***************************************************************************)
\* the pool after as many waiting fetches as there are free workers started
Started(queue, running, workers) ==
    LET n == Min(Len(queue), workers - Cardinality(running))
    IN [queue |-> SubSeq(queue, n + 1, Len(queue)),
        running |-> running \cup { queue[i] : i \in 1..n }]

\* range(a, b + 1) as a sequence
Range(a, b) == [i \in 1..(IF b >= a THEN b - a + 1 ELSE 0) |-> a + i - 1]

\* a fan-out that leaves the last page out
FanOutPagesShort(total_pages) == Range(2, total_pages - 1)

\* pages = list(range(2, int(total_pages) + 1))
FanOutPages(total_pages) == Range(2, total_pages)

\* the futures not yet taken by the calling thread
Futs(f) ==
    { f.queue[i] : i \in 1..Len(f.queue) } \cup f.running \cup f.landed

\* the trace of a fetch: a page was requested, a page's result was taken
\* (with the number of distinct values it added)
SentPage(p) == [ev |-> "sent", page |-> p, added |-> 0]
Taken(p, n) == [ev |-> "done", page |-> p, added |-> n]

\* ex.submit for each page of a list, in order
Submit(f, pages) ==
    LET s == Started(f.queue \o pages, f.running, f.workers)
    IN [f EXCEPT !.queue = s.queue, !.running = s.running,
                 !.log = f.log \o [i \in 1..Len(pages) |-> SentPage(pages[i])]]

\* the frame of a fetch at its call
FetchFrame(name, max_workers, statuses) ==
    [op |-> name, max_workers |-> max_workers, statuses |-> statuses, enabled |-> TRUE,
     pc |-> "call", first_items |-> <<>>, total_pages |-> None, page |-> 0,
     stride |-> 0, workers |-> 0, queue |-> <<>>, running |-> {}, landed |-> {},
     round |-> {}, results |-> <<>>, pages |-> 0, outcome |-> "none",
     loc_set |-> {}, sub_set |-> {}, scanned |-> 0, no_growth_streak |-> 0,
     last_unique_total |-> 0, max_page_seen |-> 0, log |-> <<>>, cache |-> None]

Return(f) == [f EXCEPT !.pc = "done", !.outcome = "return"]
Raise(f) == [f EXCEPT !.pc = "done", !.outcome = "raise"]

\* the items a landed fetch hands over: none when it raised
Landed(p) == IF PageAnswer(p) = "exc" THEN <<>> ELSE ListPage(p).items

\* a worker thread of a fan-out finishes the fetch of page p and takes the
\* next one waiting
page_fetch_worker ==
    /\ fx.pc = "fanout"
    /\ \E p \in fx.running :
          LET s == Started(fx.queue, fx.running \ {p}, fx.workers)
          IN fx' = [fx EXCEPT !.queue = s.queue, !.running = s.running,
                              !.landed = fx.landed \cup {p}]
    /\ UNCHANGED <<svc, now, src, wvars>>

(***************************************************************************)
(* fetch_order_requests_fast                                               *)
(***************************************************************************)
\* _map_order on the fields modelled
MapOrder(o) == [id |-> o.id, status |-> o.status]
MapOrders(items) == [i \in 1..Len(items) |-> MapOrder(items[i])]

ReturnOrders(f, pages) ==
    [Return(f) EXCEPT !.results = MapOrders(f.results), !.pages = pages]

\* page 1, and the choice between returning, the stride scan and the fan-out
fetch_order_requests_fast_page1 ==
    /\ fx.op = "fetch_order_requests_fast" /\ fx.pc = "call"
    /\ IF PageAnswer(1) = "exc"
       THEN fx' = Raise([fx EXCEPT !.log = Append(@, SentPage(1))])
       ELSE LET pg == ListPage(1)
                f1 == [fx EXCEPT !.results = FilterByStatusExact(pg.items, fx.statuses),
                                 !.total_pages = pg.total_pages,
                                 !.log = @ \o << SentPage(1), Taken(1, 0) >>]
                stride == Max(1, fx.max_workers)
            IN IF ~pg.has_next /\ (~IsSome(pg.total_pages) \/ Val(pg.total_pages) = 1)
               THEN fx' = ReturnOrders(f1, 1)
               ELSE IF ~IsSome(pg.total_pages)
               THEN LET f2 == Submit([f1 EXCEPT !.pc = "scan", !.stride = stride,
                                                !.workers = stride, !.max_page_seen = 1],
                                     Range(2, 1 + stride))
                    IN fx' = [f2 EXCEPT !.round = Futs(f2)]
               ELSE LET f2 == Submit([f1 EXCEPT !.pc = "fanout",
                                                !.workers = fx.max_workers],
                                     FanOutPages(Val(pg.total_pages)))
                    IN fx' = IF Futs(f2) = {} THEN ReturnOrders(f2, Val(pg.total_pages))
                             ELSE f2
    /\ UNCHANGED <<svc, now, src, wvars>>

\* the calling thread takes one finished page of the fan-out
fetch_order_requests_fast_fanout ==
    /\ fx.op = "fetch_order_requests_fast" /\ fx.pc = "fanout"
    /\ \E p \in fx.landed :
          LET f1 == [fx EXCEPT !.landed = @ \ {p},
                               !.results = @ \o FilterByStatusExact(Landed(p), fx.statuses),
                               !.log = Append(@, Taken(p, 0))]
          IN fx' = IF Futs(f1) = {} THEN ReturnOrders(f1, Val(fx.total_pages)) ELSE f1
    /\ UNCHANGED <<svc, now, src, wvars>>

\* a page of the current round of the stride scan finishes and the calling
\* thread takes it (the scan never holds more futures than workers, so each
\* one is running); a non-empty page schedules the page one stride further
fetch_order_requests_fast_scan ==
    /\ fx.op = "fetch_order_requests_fast" /\ fx.pc = "scan"
    /\ \E p \in fx.running \cap fx.round :
          LET page_items == Landed(p)
              f1 == [fx EXCEPT !.running = @ \ {p}, !.round = @ \ {p},
                               !.log = Append(@, Taken(p, 0))]
              f2 == IF page_items # <<>>
                    THEN Submit([f1 EXCEPT
                                   !.results = @ \o FilterByStatusExact(page_items, fx.statuses),
                                   !.max_page_seen = Max(@, p)],
                                << p + fx.stride >>)
                    ELSE f1
          IN fx' = IF Futs(f2) = {} THEN ReturnOrders(f2, f2.max_page_seen)
                   ELSE IF f2.round = {} THEN [f2 EXCEPT !.round = Futs(f2)]
                   ELSE f2
    /\ UNCHANGED <<svc, now, src, wvars>>

(***************************************************************************)
(* fetch_inventory_items_fast                                              *)
(***************************************************************************)
\* _choose_inventory_endpoint: page 1 of the candidate endpoints is requested
\* until one answers; every candidate is answered like page 1 of the source
choose_inventory_endpoint ==
    /\ fx.op \in {"fetch_inventory_items_fast", "collect_lab_locations_fast"}
    /\ fx.pc = "discover"
    /\ LET f1 == [fx EXCEPT !.log = Append(@, SentPage(1))]
       IN IF PageAnswer(1) \in {"exc", "404"}
          THEN fx' = Return(f1)
          ELSE fx' = [f1 EXCEPT !.pc = "page1",
                                !.first_items = IF PageAnswer(1) = "200"
                                                THEN PageItems(1) ELSE <<>>]
    /\ UNCHANGED <<svc, now, src, wvars>>

\* _list_inventory_page for the second request of page 1
ListPageAgain ==
    IF PageAnswerAgain = "200" THEN ListPage(1)
    ELSE [items |-> <<>>, has_next |-> FALSE, total_pages |-> None]

\* page 1 again for its metadata, and the choice between returning, the
\* sequential scan and the fan-out
fetch_inventory_items_fast_page1 ==
    /\ fx.op = "fetch_inventory_items_fast" /\ fx.pc = "page1"
    /\ IF PageAnswerAgain = "exc"
       THEN fx' = Raise([fx EXCEPT !.log = Append(@, SentPage(1))])
       ELSE LET pg == ListPageAgain
                f1 == [fx EXCEPT !.results = fx.first_items,
                                 !.total_pages = pg.total_pages,
                                 !.log = @ \o << SentPage(1), Taken(1, 0) >>]
            IN IF ~pg.has_next /\ (~IsSome(pg.total_pages) \/ Val(pg.total_pages) = 1)
               THEN fx' = Return(f1)
               ELSE IF ~IsSome(pg.total_pages)
               THEN fx' = [f1 EXCEPT !.pc = "seq", !.page = 2]
               ELSE LET f2 == Submit([f1 EXCEPT !.pc = "fanout",
                                                !.workers = fx.max_workers],
                                     FanOutPages(Val(pg.total_pages)))
                    IN fx' = IF Futs(f2) = {} THEN Return(f2) ELSE f2
    /\ UNCHANGED <<svc, now, src, wvars>>

\* one turn of the `while True` loop over the pages of an unknown total
fetch_inventory_items_fast_seq ==
    /\ fx.op = "fetch_inventory_items_fast" /\ fx.pc = "seq"
    /\ IF PageAnswer(fx.page) = "exc"
       THEN fx' = Raise([fx EXCEPT !.log = Append(@, SentPage(fx.page))])
       ELSE LET pg == ListPage(fx.page)
                f1 == [fx EXCEPT !.results = @ \o pg.items,
                                 !.log = @ \o << SentPage(fx.page), Taken(fx.page, 0) >>]
            IN fx' = IF ~pg.has_next THEN Return(f1)
                     ELSE [f1 EXCEPT !.page = @ + 1]
    /\ UNCHANGED <<svc, now, src, wvars>>

\* the calling thread takes one finished page of the fan-out
fetch_inventory_items_fast_fanout ==
    /\ fx.op = "fetch_inventory_items_fast" /\ fx.pc = "fanout"
    /\ \E p \in fx.landed :
          LET f1 == [fx EXCEPT !.landed = @ \ {p},
                               !.results = @ \o Landed(p),
                               !.log = Append(@, Taken(p, 0))]
          IN fx' = IF Futs(f1) = {} THEN Return(f1) ELSE f1
    /\ UNCHANGED <<svc, now, src, wvars>>

(***************************************************************************)
(* collect_lab_locations_fast                                              *)
(***************************************************************************)
\* the streak of no-growth pages at which the stride scan stops scheduling
NoGrowthLimit == 3

\* the distinct location / sub-location names of a list of items
Locs(items) == { items[i].location : i \in 1..Len(items) } \ {""}
Subs(items) == { items[i].sub_location : i \in 1..Len(items) } \ {""}

LocationsResult(f) ==
    [locations |-> f.loc_set, sub_locations |-> f.sub_set, sample_size |-> f.scanned]

\* the result is cached, then returned
ReturnLocations(f) == [Return(f) EXCEPT !.cache = Some(LocationsResult(f))]

\* the guard on the configuration and the cache lookup
collect_lab_locations_fast_call ==
    /\ fx.op = "collect_lab_locations_fast" /\ fx.pc = "call"
    /\ fx' = IF ~fx.enabled \/ IsSome(fx.cache) THEN Return(fx)
             ELSE [fx EXCEPT !.pc = "discover"]
    /\ UNCHANGED <<svc, now, src, wvars>>

\* page 1 again for its metadata, the accumulators primed with the first
\* items, and the choice between returning, the fan-out and the stride scan
collect_lab_locations_fast_page1 ==
    /\ fx.op = "collect_lab_locations_fast" /\ fx.pc = "page1"
    /\ IF PageAnswerAgain = "exc"
       THEN fx' = Raise([fx EXCEPT !.log = Append(@, SentPage(1))])
       ELSE LET pg == ListPageAgain
                f1 == [fx EXCEPT !.loc_set = Locs(fx.first_items),
                                 !.sub_set = Subs(fx.first_items),
                                 !.scanned = Len(fx.first_items),
                                 !.total_pages = pg.total_pages,
                                 !.log = @ \o << SentPage(1), Taken(1, 0) >>]
                stride == Max(1, fx.max_workers)
            IN IF ~pg.has_next /\ (~IsSome(pg.total_pages) \/ Val(pg.total_pages) = 1)
               THEN fx' = ReturnLocations(f1)
               ELSE IF IsSome(pg.total_pages) /\ Val(pg.total_pages) > 1
               THEN fx' = Submit([f1 EXCEPT !.pc = "fanout", !.workers = fx.max_workers],
                                 FanOutPages(Val(pg.total_pages)))
               ELSE LET f2 == Submit([f1 EXCEPT
                                        !.pc = "scan", !.stride = stride, !.workers = stride,
                                        !.no_growth_streak = 0,
                                        !.last_unique_total =
                                            Cardinality(f1.loc_set) + Cardinality(f1.sub_set)],
                                     Range(2, 1 + stride))
                    IN fx' = [f2 EXCEPT !.round = Futs(f2)]
    /\ UNCHANGED <<svc, now, src, wvars>>

\* the calling thread takes one finished page of the fan-out
collect_lab_locations_fast_fanout ==
    /\ fx.op = "collect_lab_locations_fast" /\ fx.pc = "fanout"
    /\ \E p \in fx.landed :
          LET items == Landed(p)
              f1 == [fx EXCEPT !.landed = @ \ {p},
                               !.scanned = @ + Len(items),
                               !.loc_set = @ \cup Locs(items),
                               !.sub_set = @ \cup Subs(items),
                               !.log = Append(@, Taken(p, 0))]
          IN fx' = IF Futs(f1) = {} THEN ReturnLocations(f1) ELSE f1
    /\ UNCHANGED <<svc, now, src, wvars>>

\* a stride scan that schedules the page after the one taken
collect_lab_locations_fast_scan_next ==
    /\ fx.op = "collect_lab_locations_fast" /\ fx.pc = "scan"
    /\ \E p \in fx.running \cap fx.round :
          LET items == Landed(p)
              loc_set == fx.loc_set \cup Locs(items)
              sub_set == fx.sub_set \cup Subs(items)
              before == Cardinality(fx.loc_set) + Cardinality(fx.sub_set)
              current_unique_total == Cardinality(loc_set) + Cardinality(sub_set)
              no_growth == current_unique_total <= fx.last_unique_total /\ Len(items) > 0
              streak == IF no_growth THEN fx.no_growth_streak + 1 ELSE 0
              f1 == [fx EXCEPT !.running = @ \ {p}, !.round = @ \ {p},
                               !.scanned = @ + Len(items),
                               !.loc_set = loc_set, !.sub_set = sub_set,
                               !.no_growth_streak = streak,
                               !.last_unique_total =
                                   IF no_growth THEN @ ELSE current_unique_total,
                               !.log = Append(@, Taken(p, current_unique_total - before))]
              f2 == IF Len(items) > 0 /\ streak < NoGrowthLimit
                    THEN Submit(f1, << p + 1 >>)
                    ELSE f1
          IN fx' = IF Futs(f2) = {} THEN ReturnLocations(f2)
                   ELSE IF f2.round = {} THEN [f2 EXCEPT !.round = Futs(f2)]
                   ELSE f2
    /\ UNCHANGED <<svc, now, src, wvars>>

\* a page of the current round of the stride scan finishes and the calling
\* thread takes it, updates the no-growth streak and schedules the page one
\* stride further unless the page was empty or the streak is at its limit
collect_lab_locations_fast_scan ==
    /\ fx.op = "collect_lab_locations_fast" /\ fx.pc = "scan"
    /\ \E p \in fx.running \cap fx.round :
          LET items == Landed(p)
              loc_set == fx.loc_set \cup Locs(items)
              sub_set == fx.sub_set \cup Subs(items)
              before == Cardinality(fx.loc_set) + Cardinality(fx.sub_set)
              current_unique_total == Cardinality(loc_set) + Cardinality(sub_set)
              no_growth == current_unique_total <= fx.last_unique_total /\ Len(items) > 0
              streak == IF no_growth THEN fx.no_growth_streak + 1 ELSE 0
              f1 == [fx EXCEPT !.running = @ \ {p}, !.round = @ \ {p},
                               !.scanned = @ + Len(items),
                               !.loc_set = loc_set, !.sub_set = sub_set,
                               !.no_growth_streak = streak,
                               !.last_unique_total =
                                   IF no_growth THEN @ ELSE current_unique_total,
                               !.log = Append(@, Taken(p, current_unique_total - before))]
              f2 == IF Len(items) > 0 /\ streak < NoGrowthLimit
                    THEN Submit(f1, << p + fx.stride >>)
                    ELSE f1
          IN fx' = IF Futs(f2) = {} THEN ReturnLocations(f2)
                   ELSE IF f2.round = {} THEN [f2 EXCEPT !.round = Futs(f2)]
                   ELSE f2
    /\ UNCHANGED <<svc, now, src, wvars>>

(***************************************************************************)
(* One fetch of orders or of inventory items.                              *)
(***************************************************************************)
\* the writers and the handlers are not running
IdleClient ==
    /\ now = 0
    /\ remote = BaseRemote /\ cfg = [lid |-> FALSE, enabled |-> TRUE]
    /\ h = Direct /\ op = "none" /\ args = <<>> /\ cur = Idle
    /\ tries = <<>> /\ wire = <<>> /\ ret = Running

NoValue == << "", "" >>

\* a finite source of T pages without location values
Source(adv, T, lastLen, mix, failPage, failKind, again) ==
    [advertise |-> adv, T |-> T, lastLen |-> lastLen, mix |-> mix,
     failPage |-> failPage, failKind |-> failKind, again |-> again,
     vals |-> [p \in 1..T |-> NoValue], forever |-> FALSE, tail |-> NoValue]

Advertises == { "total", "next", "size" }
\* <<failPage, failKind>>: no page fails, or one page does
PageFailures(T) ==
    { <<0, "200">> } \cup { <<p, k>> : p \in 1..T, k \in {"500", "exc"} }
\* the last page is short or full
LastLens(adv) == IF adv = "next" THEN {1} ELSE 1..PageSize

\* <<statuses, mix>>: the status filters requested, with the rotation of the
\* items' statuses they are run against
OrderFilters ==
    { << <<>>, 0 >>, << <<"ORDERED">>, 0 >>, << <<"ORDERED">>, 1 >>,
      << <<"received", "Ordered">>, 2 >>, << <<"">>, 0 >> }

InitFetch ==
    /\ IdleClient /\ svc = NewService(DefaultCacheTtl)
    /\ \E adv \in Advertises, T \in 1..MaxPages :
       \E ll \in LastLens(adv), fl \in PageFailures(T), W \in {1, 2, T} :
          \/ \E flt \in OrderFilters :
                /\ src = Source(adv, T, ll, flt[2], fl[1], fl[2], "same")
                /\ fx = FetchFrame("fetch_order_requests_fast", W, flt[1])
          \/ \E again \in {"same", "exc"} :
                /\ src = Source(adv, T, ll, 0,
                                fl[1], IF fl = <<1, "500">> THEN "404" ELSE fl[2], again)
                /\ fx = [FetchFrame("fetch_inventory_items_fast", W, <<>>)
                           EXCEPT !.pc = "discover"]

NextFetch ==
    \/ fetch_order_requests_fast_page1
    \/ fetch_order_requests_fast_fanout
    \/ fetch_order_requests_fast_scan
    \/ choose_inventory_endpoint
    \/ fetch_inventory_items_fast_page1
    \/ fetch_inventory_items_fast_seq
    \/ fetch_inventory_items_fast_fanout
    \/ page_fetch_worker

SpecFetch == InitFetch /\ [][NextFetch]_vars

(***************************************************************************)
(* One fetch of orders from a finite collection whose total is unknown:    *)
(* the response advertises a next page, a page size, or nothing at all,    *)
(* and no page fails.                                                      *)
(***************************************************************************)
InitStride ==
    /\ IdleClient /\ svc = NewService(DefaultCacheTtl)
    /\ \E adv \in {"next", "size", "none"}, T \in 1..MaxPages, W \in 1..MaxStride :
       \E ll \in LastLens(adv), flt \in OrderFilters :
          /\ src = Source(adv, T, ll, flt[2], 0, "200", "same")
          /\ fx = FetchFrame("fetch_order_requests_fast", W, flt[1])

NextStride ==
    \/ fetch_order_requests_fast_page1
    \/ fetch_order_requests_fast_scan

SpecStride == InitStride /\ [][NextStride]_vars

(***************************************************************************)
(* One collection of the lab's storage locations.                          *)
(***************************************************************************)
\* the <<location, sub-location>> of the items of pages 1..3
LocationLayouts ==
    { << <<"A", "">>, <<"A", "">>, <<"A", "">> >>,
      << <<"A", "">>, <<"B", "">>, <<"A", "s1">> >>,
      << <<"A", "">>, <<"A", "">>, <<"B", "s1">> >>,
      << <<"A", "s1">>, <<"B", "">>, <<"C", "">> >> }

\* a source of locations: finite, or going on forever with the tail value
LocationSource(adv, vals, forever, tail, failPage, failKind) ==
    [advertise |-> adv, T |-> Len(vals), lastLen |-> 1, mix |-> 0,
     failPage |-> failPage, failKind |-> failKind, again |-> "same",
     vals |-> vals, forever |-> forever, tail |-> tail]

InitScan ==
    /\ IdleClient /\ svc = NewService(DefaultCacheTtl)
    /\ \E vals \in LocationLayouts, W \in 1..MaxStride :
          \/ \E tail \in { <<"A", "">>, vals[3], <<"D", "">> } :
                /\ src = LocationSource("next", vals, TRUE, tail, 0, "200")
                /\ fx = FetchFrame("collect_lab_locations_fast", W, <<>>)
          \/ \E adv \in Advertises, fl \in PageFailures(Len(vals)) :
                /\ src = LocationSource(adv, vals, FALSE, NoValue, fl[1], fl[2])
                /\ fx \in { [FetchFrame("collect_lab_locations_fast", W, <<>>)
                               EXCEPT !.enabled = e, !.cache = c] :
                            e \in BOOLEAN,
                            c \in {None, Some([locations |-> {"A"}, sub_locations |-> {},
                                               sample_size |-> 1])} }

NextScan ==
    \/ collect_lab_locations_fast_call
    \/ choose_inventory_endpoint
    \/ collect_lab_locations_fast_page1
    \/ collect_lab_locations_fast_fanout
    \/ collect_lab_locations_fast_scan
    \/ page_fetch_worker

SpecScan == InitScan /\ [][NextScan]_vars

(***************************************************************************)
(* Properties of the writers and of the handlers, checked under Spec.      *)
(***************************************************************************)
(* The TTL caches and the collection reads served from them.  Each read is *)
(* one step: the guard, the cache lookup, the request and the cache write. *)
(* fx is the frame of the latest call, with the record `done` of the       *)
(* latest successful call per cache key since the last clear.              *)
(***************************************************************************)
MaxClock == 3      \* the clock runs from 0 to MaxClock
MaxTtl == 2        \* the largest cache_ttl enumerated
MaxCalls == 2      \* calls made on one service instance

\* a lookup that already misses at the instant the TTL is reached
CacheGetEarly(s, key, subkey, t) ==
    LET sub == key = "inventory_search" /\ IsSome(subkey)
        slots == IF sub THEN s.caches[key] ELSE s.caches
        name == IF sub THEN Val(subkey) ELSE key
    IN IF name \notin DOMAIN slots \/ (key = "inventory_search" /\ ~sub) THEN None
       ELSE IF t - slots[name].ts >= s.cache_ttl THEN None
       ELSE slots[name].data

\* _cache_get at time t: the data of the slot (of the sub-slot for
\* inventory_search with a subkey) unless it is missing or older than the
\* TTL; the inventory_search slot read without a subkey holds no data
CacheGetAt(s, key, subkey, t) ==
    LET sub == key = "inventory_search" /\ IsSome(subkey)
        slots == IF sub THEN s.caches[key] ELSE s.caches
        name == IF sub THEN Val(subkey) ELSE key
    IN IF name \notin DOMAIN slots \/ (key = "inventory_search" /\ ~sub) THEN None
       ELSE IF t - slots[name].ts > s.cache_ttl THEN None
       ELSE slots[name].data

\* a write that leaves the time stamp of a blank slot
CacheSetUnstamped(s, key, subkey, data, t) ==
    LET e == [data |-> Some(data), ts |-> 0]
    IN IF key = "inventory_search" /\ IsSome(subkey)
       THEN [s EXCEPT !.caches.inventory_search = (Val(subkey) :> e) @@ @]
       ELSE [s EXCEPT !.caches = (key :> e) @@ @]

\* _cache_set at time t
CacheSet(s, key, subkey, data, t) ==
    LET e == [data |-> Some(data), ts |-> t]
    IN IF key = "inventory_search" /\ IsSome(subkey)
       THEN [s EXCEPT !.caches.inventory_search = (Val(subkey) :> e) @@ @]
       ELSE [s EXCEPT !.caches = (key :> e) @@ @]

\* a clear that blanks the four named caches and keeps the other keys
ClearNamedOnly(s) == [s EXCEPT !.caches = BlankCaches @@ @]

\* clear_caches
ClearCaches(s) == [s EXCEPT !.caches = BlankCaches]

\* the cache key of collect_lab_locations_fast for a lab
LocationsKey(lab_id) ==
    IF lab_id = "L1" THEN "lab_locations_fast:L1:100:8" ELSE "lab_locations_fast::100:8"

\* the cache key and subkey a read uses
SlotOf(name, a) ==
    CASE name = "list_labs" -> << "labs", None >>
      [] name = "list_types" -> << "types", None >>
      [] name = "inventory_search" -> << "inventory_search", Some(a.query) >>
      [] OTHER -> << LocationsKey(a.lab_id), None >>

\* what the remote holds for each read
Listing(name) ==
    CASE name = "list_labs" -> << [id |-> "L1", name |-> "Lab one"] >>
      [] name = "list_types" -> << [id |-> "t1", name |-> "Reagent"] >>
      [] name = "inventory_search" -> << [id |-> "i1", name |-> "tube"] >>
      [] OTHER -> [locations |-> {"A"}, sub_locations |-> {"s1"}, sample_size |-> 2]

\* a read through the cache: a fresh slot is returned without a request (unless
\* refresh is asked); otherwise `gets` requests are sent, an "ok" answer is
\* stored and returned, and another answer returns `failed`, stored when keep
CachedRead(name, a, answer, gets, failed, keep) ==
    LET slot == SlotOf(name, a)
        cached == CacheGetAt(svc, slot[1], slot[2], now)
    IN IF ~a.refresh /\ IsSome(cached)
       THEN [ret |-> Val(cached), sent |-> 0, ok |-> FALSE, svc |-> svc]
       ELSE IF answer = "ok"
       THEN [ret |-> Listing(name), sent |-> gets, ok |-> TRUE,
             svc |-> CacheSet(svc, slot[1], slot[2], Listing(name), now)]
       ELSE [ret |-> failed, sent |-> gets, ok |-> FALSE,
             svc |-> IF keep THEN CacheSet(svc, slot[1], slot[2], failed, now) ELSE svc]

\* the frame of call number fx.calls + 1: its arguments, the time, and its
\* result r (the value returned, the requests sent, whether a fetch succeeded)
Served(name, a, r) ==
    [calls |-> fx.calls + 1, op |-> name, args |-> a, at |-> now,
     ret |-> r.ret, sent |-> r.sent, ok |-> r.ok]

\* the requests of a call, added to the wire
Requests(name, answer, r) ==
    wire \o [i \in 1..r.sent |-> [by |-> name, answer |-> answer]]

\* what a cached read leaves alone
rvars == <<now, src, remote, cfg, h, op, args, cur, tries, ret>>

\* time passes
tick ==
    /\ now < MaxClock
    /\ now' = now + 1
    /\ UNCHANGED <<svc, fx, src, wvars>>

list_labs ==
    /\ fx.calls < MaxCalls
    /\ \E refresh \in BOOLEAN, answer \in {"ok", "403"} :
          LET a == [refresh |-> refresh]
              r == CachedRead("list_labs", a, answer, 1, <<>>, FALSE)
          IN /\ fx' = Served("list_labs", a, r) /\ svc' = r.svc
             /\ wire' = Requests("list_labs", answer, r)
    /\ UNCHANGED rvars

list_types ==
    /\ fx.calls < MaxCalls
    /\ \E answer \in {"ok", "exc"} :
          LET a == [refresh |-> FALSE]
              r == CachedRead("list_types", a, answer, 1, <<>>, FALSE)
          IN /\ fx' = Served("list_types", a, r) /\ svc' = r.svc
             /\ wire' = Requests("list_types", answer, r)
    /\ UNCHANGED rvars

\* inventory_search with pages = 1: a blank query returns at the guard; the
\* results are stored whatever the answer was
inventory_search ==
    /\ fx.calls < MaxCalls
    /\ \E query \in {"tube", ""}, answer \in {"ok", "403"} :
          LET a == [query |-> query, refresh |-> FALSE]
              r == IF query = ""
                   THEN [ret |-> <<>>, sent |-> 0, ok |-> FALSE, svc |-> svc]
                   ELSE CachedRead("inventory_search", a, answer, 1, <<>>, TRUE)
          IN /\ fx' = Served("inventory_search", a, r) /\ svc' = r.svc
             /\ wire' = Requests("inventory_search", answer, r)
    /\ UNCHANGED rvars

\* collect_lab_locations_fast as a whole: when the discovery finds no endpoint
\* ("exc") the empty result is returned and not stored; a scan that reads
\* nothing ("403") stores the empty result
collect_lab_locations_fast ==
    /\ fx.calls < MaxCalls
    /\ \E refresh \in BOOLEAN, answer \in {"ok", "403", "exc"} :
          LET a == [lab_id |-> "L1", refresh |-> refresh]
              empty == [locations |-> {}, sub_locations |-> {}, sample_size |-> 0]
              r == CachedRead("collect_lab_locations_fast", a, answer,
                              IF answer = "exc" THEN 1 ELSE 2, empty, answer = "403")
          IN /\ fx' = Served("collect_lab_locations_fast", a, r) /\ svc' = r.svc
             /\ wire' = Requests("collect_lab_locations_fast", answer, r)
    /\ UNCHANGED rvars

\* clear_caches; the discovered strategy and the debug record stay
clear_caches ==
    /\ fx.calls < MaxCalls
    /\ svc' = ClearCaches(svc)
    /\ fx' = Served("clear_caches", <<>>, [ret |-> TRUE, sent |-> 0, ok |-> TRUE])
    /\ UNCHANGED <<now, src, wvars>>

\* an instance with any TTL up to MaxTtl whose order fetch has discovered its
\* filter strategy
InitCache ==
    /\ IdleClient /\ src = <<>>
    /\ \E ttl \in 1..MaxTtl :
          svc = [NewService(ttl) EXCEPT
                   !.orders_filter_strategy = Some(1),
                   !.orders_filter_strategy_checked = TRUE,
                   !.debug = [orders_filter_discovery_attempted |-> TRUE,
                              orders_filter_strategy |-> Some(1)]]
    /\ fx = [calls |-> 0, op |-> "none", args |-> <<>>, at |-> 0, ret |-> <<>>,
             sent |-> 0, ok |-> FALSE]

NextCache ==
    \/ tick
    \/ list_labs
    \/ list_types
    \/ inventory_search
    \/ collect_lab_locations_fast
    \/ clear_caches

SpecCache == InitCache /\ [][NextCache]_vars

(***************************************************************************)
(* fetch_order_requests, called from two threads on one instance.  The     *)
(* remote (src) accepts some auth modes, or is down (every request         *)
(* raises), honours the status filter of at most one strategy candidate,   *)
(* and holds T non-empty pages of orders.  fx holds the frame of each      *)
(* thread, the number of calls begun and the time of the latest successful *)
(* return.                                                                 *)
(***************************************************************************)
Threads == {1, 2}

\* the number of filter strategy candidates of _ensure_orders_filter_strategy
StrategyCandidates == 5

\* the auth modes fetch_order_requests tries, in order
AuthModes(s) ==
    IF s.auth_mode = "bearer" THEN << "bearer" >>
    ELSE IF s.auth_mode \in {"access-token", "access_token"} THEN << "access-token" >>
    ELSE IF s.auth_fallback THEN << "access-token", "bearer" >>
    ELSE << "access-token" >>

\* how the remote answers a GET of /order-requests sent under a mode
OrdersAnswer(mode) ==
    IF src.down THEN "exc" ELSE IF mode \in src.accepts THEN "200" ELSE "401"

\* the orders of page p, mapped
OrdersPage(p) == IF p <= src.T THEN << [id |-> <<p, 1>>, status |-> "ORDERED"] >> ELSE <<>>

\* the call begins: the guard, the read of the orders cache (its value is not
\* used) and, in _ensure_orders_filter_strategy, the test of the checked flag
fetch_order_requests_call ==
    /\ fx.calls < MaxCalls
    /\ \E t \in Threads, statuses \in { <<>>, << "ORDERED" >> } :
          /\ fx.th[t].pc \in {"idle", "done"}
          /\ LET desired == IF statuses = <<>> THEN << "ORDERED" >> ELSE statuses
                 cached == CacheGetAt(svc, "orders", None, now)
                 f == [pc |-> IF svc.orders_filter_strategy_checked THEN "fetch"
                              ELSE "ensure",
                       call |-> fx.calls + 1, desired |-> desired, attempts |-> <<>>,
                       ok |-> FALSE, ret |-> <<>>,
                       in_ttl |-> IsSome(fx.last_ok)
                                    /\ now - Val(fx.last_ok) <= svc.cache_ttl]
             IN fx' = [fx EXCEPT !.th[t] = f, !.calls = @ + 1]
    /\ UNCHANGED <<svc, wire, rvars>>

\* the rest of _ensure_orders_filter_strategy: the flag is set and the probe
\* loop runs over the candidates until one gives a filtered list
ensure_orders_filter_strategy ==
    /\ \E t \in Threads :
          /\ fx.th[t].pc = "ensure"
          /\ LET primary_mode == IF svc.auth_mode # "bearer" THEN "access-token"
                                 ELSE "bearer"
                 found == OrdersAnswer(primary_mode) = "200" /\ src.honours > 0
                 n == IF found THEN src.honours ELSE StrategyCandidates
                 strategy == IF found THEN Some(src.honours) ELSE svc.orders_filter_strategy
             IN /\ svc' = [svc EXCEPT
                             !.orders_filter_strategy_checked = TRUE,
                             !.orders_filter_strategy = strategy,
                             !.debug = [orders_filter_discovery_attempted |-> TRUE,
                                       orders_filter_strategy |-> strategy] @@ @]
                /\ wire' = wire \o [i \in 1..n |->
                                      [call |-> fx.th[t].call, kind |-> "probe", page |-> 1]]
                /\ fx' = [fx EXCEPT !.th[t].pc = "fetch"]
    /\ UNCHANGED rvars

\* page 1 under each auth mode until one works, then the following pages
\* until one fails or is empty, and the return
fetch_order_requests ==
    /\ \E t \in Threads :
          /\ fx.th[t].pc = "fetch"
          /\ LET modes == AuthModes(svc)
                 works == { i \in 1..Len(modes) : OrdersAnswer(modes[i]) = "200" }
                 tried == IF works = {} THEN Len(modes)
                          ELSE CHOOSE i \in works : \A j \in works : i <= j
                 more == IF works = {} THEN 0 ELSE src.T
                 attempts == [i \in 1..(tried + more) |->
                                IF i <= tried
                                THEN [mode |-> modes[i], page |-> 1,
                                      answer |-> OrdersAnswer(modes[i])]
                                ELSE [mode |-> modes[tried], page |-> i - tried + 1,
                                      answer |-> "200"]]
                 orders == IF works = {} THEN <<>>
                           ELSE [p \in 1..src.T |-> OrdersPage(p)[1]]
                 f == [fx.th[t] EXCEPT !.pc = "done", !.ok = works # {},
                                       !.attempts = attempts,
                                       !.ret = [orders |-> orders,
                                                pages |-> IF works = {} THEN 0 ELSE src.T]]
             IN /\ fx' = [fx EXCEPT !.th[t] = f,
                                    !.last_ok = IF works # {} THEN Some(now) ELSE @]
                /\ svc' = [svc EXCEPT !.debug = [orders_attempts |-> attempts] @@ @]
                /\ wire' = wire \o [i \in 1..Len(attempts) |->
                                      [call |-> f.call, kind |-> "page",
                                       page |-> attempts[i].page]]
    /\ UNCHANGED rvars

InitOrders ==
    /\ IdleClient
    /\ \E ttl \in 1..MaxTtl, auth_mode \in {"auto", "bearer"}, auth_fallback \in BOOLEAN :
          svc = [auth_mode |-> auth_mode, auth_fallback |-> auth_fallback] @@ NewService(ttl)
    /\ src \in [down : BOOLEAN, accepts : SUBSET {"access-token", "bearer"},
                honours : {0, 1, 3}, T : 1..2]
    /\ fx = [th |-> [t \in Threads |-> [pc |-> "idle"]], calls |-> 0, last_ok |-> None]

NextOrders ==
    \/ tick
    \/ fetch_order_requests_call
    \/ ensure_orders_filter_strategy
    \/ fetch_order_requests

SpecOrders == InitOrders /\ [][NextOrders]_vars

(***************************************************************************)
(* The matching engine.  Text is a sequence of one-character strings.  src *)
(* holds the listing that fetch_inventory_items_fast returned, fx the      *)
(* frame of the last call: its arguments and its return value.             *)
(***************************************************************************)
\* the longest listing
MaxItems == 2

\* str.lower on the characters of the texts below
LowerChar(c) == IF c = "A" THEN "a" ELSE IF c = "B" THEN "b" ELSE c

\* str.strip
StripText(s) ==
    LET ink == { i \in 1..Len(s) : s[i] # " " }
    IN IF ink = {} THEN <<>>
       ELSE SubSeq(s, CHOOSE i \in ink : \A j \in ink : i <= j,
                      CHOOSE i \in ink : \A j \in ink : i >= j)

\* _norm: stripped, lower case, every run of blanks one blank
Norm(s) ==
    LET l == [i \in 1..Len(s) |-> LowerChar(s[i])]
        keep == { i \in 1..Len(l) :
                    \/ l[i] # " "
                    \/ /\ i > 1 /\ l[i-1] # " "
                       /\ \E j \in (i+1)..Len(l) : l[j] # " " }
    IN [k \in 1..Cardinality(keep) |->
          l[CHOOSE i \in keep : Cardinality({ j \in keep : j <= i }) = k]]

\* a in b, of two texts
Contains(a, b) == \E i \in 0..(Len(b) - Len(a)) : SubSeq(b, i + 1, i + Len(a)) = a

\* the characters of the texts of the model
Chars == { " ", "1", "2", "A", "B", "a", "b" }

\* the characters difflib.SequenceMatcher matches: the longest common block
\* (the earliest in a, then in b), then the same to its left and to its right
MatchCount[a \in Seq(Chars), b \in Seq(Chars)] ==
    LET common(k) == { x \in (1..(Len(a) - k + 1)) \X (1..(Len(b) - k + 1)) :
                         SubSeq(a, x[1], x[1] + k - 1) = SubSeq(b, x[2], x[2] + k - 1) }
        sizes == { k \in 1..Min(Len(a), Len(b)) : common(k) # {} }
    IN IF sizes = {} THEN 0
       ELSE LET k == CHOOSE n \in sizes : \A l \in sizes : l <= n
                m == CHOOSE x \in common(k) : \A y \in common(k) :
                        x[1] < y[1] \/ (x[1] = y[1] /\ x[2] <= y[2])
            IN k + MatchCount[SubSeq(a, 1, m[1] - 1), SubSeq(b, 1, m[2] - 1)]
                 + MatchCount[SubSeq(a, m[1] + k, Len(a)), SubSeq(b, m[2] + k, Len(b))]

\* the points of a fuzzy comparison: ratio() is 2 * matches / total length,
\* compared with 0.92, 0.85 and 0.75
FuzzyScore(a, b, high, mid, low) ==
    LET r == 200 * MatchCount[a, b]
        t == Len(a) + Len(b)
    IN IF r >= 92 * t THEN high ELSE IF r >= 85 * t THEN mid
       ELSE IF r >= 75 * t THEN low ELSE 0

\* _extract_inv_catalog, for items that carry catalog_number and sku
ExtractInvCatalog(it) ==
    IF it.catalog_number # <<>> /\ StripText(it.catalog_number) # <<>>
    THEN StripText(it.catalog_number)
    ELSE IF it.sku # <<>> /\ StripText(it.sku) # <<>> THEN StripText(it.sku)
    ELSE <<>>

\* an exact catalog match that counts no more than a close name
CatalogScoreFlat(q_cat, cn) ==
    IF q_cat # <<>> /\ cn # <<>> /\ q_cat = cn THEN 30
    ELSE IF q_cat # <<>> /\ cn # <<>> /\ (Contains(q_cat, cn) \/ Contains(cn, q_cat)) THEN 60
    ELSE 0

\* the points of the catalog number
CatalogScore(q_cat, cn) ==
    IF q_cat # <<>> /\ cn # <<>> /\ q_cat = cn THEN 100
    ELSE IF q_cat # <<>> /\ cn # <<>> /\ (Contains(q_cat, cn) \/ Contains(cn, q_cat)) THEN 60
    ELSE 0

\* a score where an exact name leaves the similarity of the names out
ScoreFirstMatch(it, q) ==
    LET nm == Norm(it.name)
        vn == Norm(it.vendor)
        q_name == Norm(q.item_name)
        q_vendor == Norm(q.vendor_name)
    IN CatalogScore(Norm(q.catalog_number), Norm(ExtractInvCatalog(it)))
       + (IF q_name # <<>> /\ nm # <<>> /\ q_name = nm THEN 40
          ELSE IF q_name # <<>> /\ nm # <<>> THEN FuzzyScore(q_name, nm, 30, 20, 10) ELSE 0)
       + (IF q_vendor # <<>> /\ vn # <<>> /\ q_vendor = vn THEN 20 ELSE 0)
       + (IF q_vendor # <<>> /\ vn # <<>> THEN FuzzyScore(q_vendor, vn, 12, 8, 4) ELSE 0)

\* the score of one item against the query
Score(it, q) ==
    LET nm == Norm(it.name)
        vn == Norm(it.vendor)
        q_name == Norm(q.item_name)
        q_vendor == Norm(q.vendor_name)
    IN CatalogScore(Norm(q.catalog_number), Norm(ExtractInvCatalog(it)))
       + (IF q_name # <<>> /\ nm # <<>> /\ q_name = nm THEN 40 ELSE 0)
       + (IF q_vendor # <<>> /\ vn # <<>> /\ q_vendor = vn THEN 20 ELSE 0)
       + (IF q_name # <<>> /\ nm # <<>> THEN FuzzyScore(q_name, nm, 30, 20, 10) ELSE 0)
       + (IF q_vendor # <<>> /\ vn # <<>> THEN FuzzyScore(q_vendor, vn, 12, 8, 4) ELSE 0)

\* the code point of a character, and the order of str on two texts
CodePoint(c) ==
    IF c = " " THEN 32 ELSE IF c = "1" THEN 49 ELSE IF c = "2" THEN 50
    ELSE IF c = "A" THEN 65 ELSE IF c = "B" THEN 66 ELSE IF c = "a" THEN 97 ELSE 98

TextLess(a, b) ==
    \E k \in 1..(Len(b)) :
        /\ k <= Len(a) + 1
        /\ SubSeq(a, 1, k - 1) = SubSeq(b, 1, k - 1)
        /\ k > Len(a) \/ CodePoint(a[k]) < CodePoint(b[k])

\* a ranking by falling score alone, items of one score in the order of the
\* listing
RankedByScore(items, q) ==
    LET scored == { r \in { [at |-> i, score |-> Score(items[i], q)] : i \in 1..Len(items) } :
                      r.score > 0 }
        before(r) == { s \in scored :
                         s.score > r.score \/ (s.score = r.score /\ s.at < r.at) }
    IN [k \in 1..Cardinality(scored) |->
          LET r == CHOOSE r \in scored : Cardinality(before(r)) = k - 1
          IN [item_name |-> items[r.at].name, vendor_name |-> items[r.at].vendor,
              catalog_number |-> ExtractInvCatalog(items[r.at]),
              score |-> r.score, id |-> items[r.at].id]]

\* the candidates of a listing: the items that score, sorted by falling score
\* and then by item name, items of one key in the order of the listing
RankedCandidates(items, q) ==
    LET scored == { r \in { [at |-> i, score |-> Score(items[i], q)] : i \in 1..Len(items) } :
                      r.score > 0 }
        before(r) == { s \in scored :
                         \/ s.score > r.score
                         \/ /\ s.score = r.score
                            /\ \/ TextLess(items[s.at].name, items[r.at].name)
                               \/ items[s.at].name = items[r.at].name /\ s.at < r.at }
    IN [k \in 1..Cardinality(scored) |->
          LET r == CHOOSE r \in scored : Cardinality(before(r)) = k - 1
          IN [item_name |-> items[r.at].name, vendor_name |-> items[r.at].vendor,
              catalog_number |-> ExtractInvCatalog(items[r.at]),
              score |-> r.score, id |-> items[r.at].id]]

\* the queries and the listed items of the model
Queries ==
    [item_name : { <<>>, <<"a","b","a","b","a","b">> },
     vendor_name : { <<>>, <<"A","b","a","b">> },
     catalog_number : { <<>>, <<" ","A","1">>, <<"a","1","2">> }]

ItemPool ==
    { [id |-> 1, name |-> <<"b">>, vendor |-> <<>>,
       catalog_number |-> <<"a","1"," ">>, sku |-> <<>>],
      [id |-> 2, name |-> <<"a","b","a","b","a","b","a">>, vendor |-> <<"a","b","a","b","a">>,
       catalog_number |-> <<>>, sku |-> <<>>],
      [id |-> 3, name |-> <<"A","b","a","b"," ","a","b">>, vendor |-> <<>>,
       catalog_number |-> <<"a","1","2">>, sku |-> <<>>],
      [id |-> 4, name |-> <<"a","b","a","b","a","b">>, vendor |-> <<"b">>,
       catalog_number |-> <<" ">>, sku |-> <<"A","1">>],
      [id |-> 5, name |-> <<"a","b","a","b","a">>, vendor |-> <<"a","b","a","b">>,
       catalog_number |-> <<"2">>, sku |-> <<>>] }

find_inventory_candidates ==
    /\ fx.op = "call"
    /\ LET candidates == RankedCandidates(src.items, fx.args.query)
       IN fx' = [op |-> "find_inventory_candidates", args |-> fx.args,
                 ret |-> [query |-> fx.args.query, count |-> Len(candidates),
                          candidates |-> SubSeq(candidates, 1,
                                           Min(Len(candidates), Max(1, fx.args.limit)))]]
    /\ UNCHANGED <<svc, wire, rvars>>

\* find_inventory_match_best: the first of the ranking with limit 1
find_inventory_match_best_ranked ==
    /\ fx.op = "call"
    /\ LET candidates == RankedCandidates(src.items, fx.args.query)
       IN fx' = [op |-> "find_inventory_match_best",
                 args |-> [fx.args EXCEPT !.limit = 1],
                 ret |-> IF candidates # <<>>
                         THEN [found |-> TRUE, item |-> candidates[1]]
                         ELSE [found |-> FALSE]]
    /\ UNCHANGED <<svc, wire, rvars>>

\* a listing and the arguments of the call about to be made on it
InitMatch ==
    /\ IdleClient
    /\ svc = NewService(DefaultCacheTtl)
    /\ \E n \in 0..MaxItems : src \in [items : [1..n -> ItemPool]]
    /\ \E q \in Queries, limit \in {0, 2} :
          fx = [op |-> "call", args |-> [query |-> q, limit |-> limit]]

NextMatch ==
    \/ find_inventory_candidates
    \/ find_inventory_match_best_ranked

SpecMatch == InitMatch /\ [][NextMatch]_vars

(***************************************************************************)
(* find_inventory_candidates on the listing it fetches itself: the fetch   *)
(* of fetch_inventory_items_fast above, then the ranking of what it        *)
(* returned.  The frame keeps the rankings the calls returned so far.      *)
(***************************************************************************)
\* the name, vendor and catalog fields the remote holds for an item: the k-th
\* items of all pages carry one name
InventoryRecord(it) ==
    [id |-> it.id,
     name |-> IF it.id[2] = 1 THEN <<"a","b","a","b","a","b">>
              ELSE <<"a","b","a","b","a","b","a">>,
     vendor |-> <<>>, catalog_number |-> <<>>, sku |-> <<>>]

\* the frame of a call of find_inventory_candidates at its fetch
RankFrame(max_workers, query, rankings) ==
    [query |-> query, rankings |-> rankings]
        @@ [FetchFrame("fetch_inventory_items_fast", max_workers, <<>>)
              EXCEPT !.pc = "discover"]

\* the listing has been fetched: it is scored, sorted and cut, and the next
\* call begins
find_inventory_candidates_rank ==
    /\ fx.op = "fetch_inventory_items_fast" /\ fx.pc = "done" /\ fx.outcome = "return"
    /\ Len(fx.rankings) < MaxCalls
    /\ LET items == [i \in 1..Len(fx.results) |-> InventoryRecord(fx.results[i])]
           candidates == RankedCandidates(items, fx.query)
           ranking == SubSeq(candidates, 1, Min(Len(candidates), Max(1, 5)))
       IN fx' = IF Len(fx.rankings) + 1 < MaxCalls
                THEN RankFrame(fx.max_workers, fx.query, Append(fx.rankings, ranking))
                ELSE [fx EXCEPT !.pc = "ranked", !.rankings = Append(@, ranking)]
    /\ UNCHANGED <<svc, now, src, wvars>>

InitRank ==
    /\ IdleClient /\ svc = NewService(DefaultCacheTtl)
    /\ \E adv \in Advertises, T \in 1..MaxPages :
       \E ll \in LastLens(adv), W \in {1, 2} :
          /\ src = Source(adv, T, ll, 0, 0, "200", "same")
          /\ fx = RankFrame(W, [item_name |-> <<"a","b","a","b","a","b">>,
                                vendor_name |-> <<>>, catalog_number |-> <<>>], <<>>)

NextRank ==
    \/ choose_inventory_endpoint
    \/ fetch_inventory_items_fast_page1
    \/ fetch_inventory_items_fast_seq
    \/ fetch_inventory_items_fast_fanout
    \/ page_fetch_worker
    \/ find_inventory_candidates_rank

SpecRank == InitRank /\ [][NextRank]_vars

(***************************************************************************)
(* The paging of fetch_order_requests.  src is the remote (the auth modes  *)
(* it accepts, its T pages of orders, the page that fails if any); fx      *)
(* holds the arguments all_pages, page_limit and safety_max and the frame  *)
(* of the call; wire records each page request.                            *)
(***************************************************************************)
\* how a page after the first is answered
LaterPageAnswer(p) == IF p = src.failPage THEN "500" ELSE "200"

\* cap = page_limit if (page_limit and page_limit > 0) else safety_max
PageCap(page_limit, safety_max) ==
    IF IsSome(page_limit) /\ Val(page_limit) > 0 THEN Val(page_limit) ELSE safety_max

\* page 1 under each auth mode until one works; the call returns when none
\* does or when all_pages is false
fetch_order_requests_first_page ==
    /\ fx.pc = "call"
    /\ LET modes == AuthModes(svc)
           works == { i \in 1..Len(modes) : OrdersAnswer(modes[i]) = "200" }
           tried == IF works = {} THEN Len(modes)
                    ELSE CHOOSE i \in works : \A j \in works : i <= j
       IN /\ wire' = wire \o [i \in 1..tried |->
                                [mode |-> modes[i], page |-> 1,
                                 answer |-> OrdersAnswer(modes[i])]]
          /\ fx' = IF works = {}
                   THEN [fx EXCEPT !.pc = "done"]
                   ELSE [fx EXCEPT !.pc = IF fx.all_pages THEN "paging" ELSE "done",
                                   !.orders = OrdersPage(1), !.pages = 1, !.page = 2,
                                   !.selected_mode = Some(modes[tried])]
    /\ UNCHANGED <<svc, now, src, remote, cfg, h, op, args, cur, tries, ret>>

\* one turn of for page in range(2, max(2, cap) + 1): the page is requested,
\* and the loop ends when it fails or is empty, or after the last turn
fetch_order_requests_next_page ==
    /\ fx.pc = "paging"
    /\ LET cap == PageCap(fx.page_limit, fx.safety_max)
           answer == LaterPageAnswer(fx.page)
           items == IF answer = "200" THEN OrdersPage(fx.page) ELSE <<>>
       IN IF fx.page > Max(2, cap)
          THEN wire' = wire /\ fx' = [fx EXCEPT !.pc = "done"]
          ELSE /\ wire' = Append(wire, [mode |-> Val(fx.selected_mode), page |-> fx.page,
                                        answer |-> answer])
               /\ fx' = IF items = <<>> THEN [fx EXCEPT !.pc = "done"]
                        ELSE [fx EXCEPT !.orders = @ \o items, !.pages = @ + 1,
                                        !.page = @ + 1]
    /\ UNCHANGED <<svc, now, src, remote, cfg, h, op, args, cur, tries, ret>>

\* the remotes and the arguments of the call
InitPaging ==
    /\ IdleClient
    /\ \E auth_mode \in {"auto", "bearer"}, auth_fallback \in BOOLEAN :
          svc = [auth_mode |-> auth_mode, auth_fallback |-> auth_fallback]
                   @@ NewService(DefaultCacheTtl)
    /\ src \in [down : BOOLEAN, accepts : SUBSET {"access-token", "bearer"},
                T : 1..(MaxPages + 1), failPage : {0} \cup 2..MaxPages]
    /\ \E all_pages \in BOOLEAN, page_limit \in {None} \cup { Some(n) : n \in 0..MaxPages },
          safety_max \in 1..MaxPages :
          fx = [pc |-> "call", all_pages |-> all_pages, page_limit |-> page_limit,
                safety_max |-> safety_max, orders |-> <<>>, pages |-> 0, page |-> 0,
                selected_mode |-> None]

NextPaging ==
    \/ fetch_order_requests_first_page
    \/ fetch_order_requests_next_page

SpecPaging == InitPaging /\ [][NextPaging]_vars

(***************************************************************************)
(* The pagination metadata of one page response.  src holds the response:  *)
(* its headers, the pagination objects of its body, the number of items it *)
(* lists, and the per_page the request asked for.                          *)
(***************************************************************************)
\* the first of the optional values that is there
FirstOf(opts) ==
    LET there == { i \in 1..Len(opts) : IsSome(opts[i]) }
    IN IF there = {} THEN None ELSE opts[CHOOSE i \in there : \A j \in there : i <= j]

\* has_next as far as the headers tell: X-Page < X-Total-Pages, X-Next-Page,
\* or a Link header with rel="next"
HeadersHaveNext(hd) ==
    \/ IsSome(hd.x_page) /\ IsSome(hd.x_total_pages)
          /\ Val(hd.x_page) < Val(hd.x_total_pages)
    \/ hd.x_next_page
    \/ hd.link_next

\* _page_has_next_inventory with the requested per_page as the page size
\* when none is advertised
PageHasNextInventoryHint(hd, items_len, per_page_hint, meta_obj) ==
    LET advertised == FirstOf(<< hd.x_per_page, meta_obj.per_page >>)
        eff_page_size == IF IsSome(advertised) THEN Val(advertised) ELSE per_page_hint
    IN [has_next |-> HeadersHaveNext(hd) \/ items_len = eff_page_size,
        total_pages |-> hd.x_total_pages, eff_page_size |-> eff_page_size]

\* _page_has_next_inventory
PageHasNextInventory(hd, items_len, per_page_hint, meta_obj) ==
    LET advertised == FirstOf(<< hd.x_per_page, meta_obj.per_page >>)
        eff_page_size == IF IsSome(advertised) THEN Val(advertised) ELSE DefaultPageSize
    IN [has_next |-> HeadersHaveNext(hd) \/ items_len = eff_page_size,
        total_pages |-> hd.x_total_pages, eff_page_size |-> eff_page_size]

\* the part of _list_inventory_page after an OK answer: the meta object is
\* the body's meta, or its pagination when it has no meta
list_inventory_page_meta ==
    /\ fx.pc = "call" /\ src.kind = "inventory"
    /\ LET meta == IF IsSome(src.body.meta.per_page) THEN src.body.meta
                   ELSE [per_page |-> src.body.pagination.per_page]
       IN fx' = [pc |-> "done"] @@
                PageHasNextInventory(src.headers, src.items_len, src.per_page, meta)
    /\ UNCHANGED <<svc, now, src, wvars>>

\* the part of _list_order_requests_page after an OK answer: the headers,
\* then the links and the pagination objects of the body, then the page size
\* (the total derived from an X-Total-Count header is left out: no response
\* drawn carries one)
list_order_requests_page_meta ==
    /\ fx.pc = "call" /\ src.kind = "orders"
    /\ LET hd == src.headers
           pg == src.body.pagination
           by_body == \/ src.body.links_next
                      \/ IsSome(pg.current_page) /\ IsSome(pg.total_pages)
                            /\ Val(pg.current_page) < Val(pg.total_pages)
                      \/ pg.next_page
           advertised == FirstOf(<< hd.x_per_page, src.body.meta.per_page, pg.per_page >>)
           eff_page_size == IF IsSome(advertised) THEN Val(advertised) ELSE DefaultPageSize
           headers_say == HeadersHaveNext(hd)
           total_pages == IF ~headers_say /\ ~src.body.links_next /\ IsSome(pg.total_pages)
                          THEN pg.total_pages ELSE hd.x_total_pages
       IN fx' = [pc |-> "done",
                 has_next |-> headers_say \/ by_body \/ src.items_len = eff_page_size,
                 total_pages |-> total_pages, eff_page_size |-> eff_page_size]
    /\ UNCHANGED <<svc, now, src, wvars>>

\* the responses: what the headers and the body advertise, if anything
InitPage ==
    /\ IdleClient /\ svc = NewService(DefaultCacheTtl)
    /\ src \in [kind : {"inventory", "orders"},
                headers : [x_page : {None, Some(1), Some(2)}, x_total_pages : {None, Some(2)},
                           x_next_page : BOOLEAN, link_next : BOOLEAN,
                           x_per_page : {None, Some(PageSize)}],
                body : [links_next : BOOLEAN,
                        meta : [per_page : {None, Some(PageSize)}],
                        pagination : [per_page : {None, Some(1)},
                                      current_page : {None, Some(1), Some(2)},
                                      total_pages : {None, Some(2)},
                                      next_page : BOOLEAN]],
                items_len : {1, PageSize, DefaultPageSize},
                per_page : {1, PageSize}]
    /\ fx = [pc |-> "call", has_next |-> FALSE, total_pages |-> None, eff_page_size |-> 0]

NextPage ==
    \/ list_inventory_page_meta
    \/ list_order_requests_page_meta

SpecPage == InitPage /\ [][NextPage]_vars

(***************************************************************************)
(* The transport of the session (requests + urllib3 Retry mounted in       *)
(* QuartzyService.__init__).  src holds the verb of one logical request    *)
(* and how the remote answers each of its sends: a status, a failed        *)
(* connection ("conn") or a failed read ("read").                          *)
(***************************************************************************)
\* Retry(total=3)
RetryTotal == 3

\* status_forcelist and allowed_methods of the Retry
StatusForcelist == { "429", "500", "502", "503", "504" }
AllowedMethods == { "GET", "PUT", "POST", "DELETE", "OPTIONS" }

\* Retry.increment / Retry.is_retry: a failed connection is retried for any
\* verb, a failed read and a listed status for the allowed verbs
IsRetry(method, answer) ==
    \/ answer = "conn"
    \/ answer = "read" /\ method \in AllowedMethods
    \/ answer \in StatusForcelist /\ method \in AllowedMethods

\* one send of the request: the answer is handed to the caller, or the
\* request is sent again while retries are left, or the transport raises
session_send ==
    /\ fx.pc = "send"
    /\ LET n == fx.sends + 1
           answer == src.answers[n]
           again == IsRetry(src.method, answer)
       IN /\ wire' = Append(wire, [method |-> src.method, answer |-> answer])
          /\ fx' = IF ~again
                   THEN [fx EXCEPT !.sends = n, !.pc = "done",
                                   !.outcome = IF answer \in {"conn", "read"} THEN "raise"
                                               ELSE answer]
                   ELSE IF fx.sends < RetryTotal
                   THEN [fx EXCEPT !.sends = n]
                   ELSE [fx EXCEPT !.sends = n, !.pc = "done", !.outcome = "raise"]
    /\ UNCHANGED <<svc, now, src, remote, cfg, h, op, args, cur, tries, ret>>

\* the verbs the service sends and the answers to up to 1 + total sends
InitTransport ==
    /\ IdleClient /\ svc = NewService(DefaultCacheTtl)
    /\ src \in [method : { "GET", "PUT", "PATCH", "POST" },
                answers : [1..(RetryTotal + 1) ->
                             { "200", "404", "429", "500", "503", "conn", "read" }]]
    /\ fx = [pc |-> "send", sends |-> 0, outcome |-> "none"]

NextTransport == session_send

SpecTransport == InitTransport /\ [][NextTransport]_vars

(***************************************************************************)
(* The discovery of the status-filter shape of GET /order-requests, one    *)
(* probe per step.  src holds the statuses the caller asks for and, for    *)
(* each candidate shape, how the remote answers its probe: a non-OK        *)
(* status, an exception ("exc"), or 200 with the statuses of the orders it *)
(* lists.  A                                                               *)
(* parameter value is a comma-joined text (csv) or a list (array) of       *)
(* tokens.                                                                 *)
(***************************************************************************)
\* the lower-case status words in use, as sorted() orders them
SortedWords == << "ordered", "pending", "received" >>

\* desired: the statuses stripped, blanks dropped, ORDERED when none is left
Desired(statuses) ==
    LET kept == SelectSeq([k \in 1..Len(statuses) |-> Strip(statuses[k])],
                          LAMBDA s : s # "")
    IN IF kept = <<>> THEN << "ORDERED" >> ELSE kept

\* _split_status_tokens: the distinct lower-case tokens, sorted, split into
\* order statuses and approval statuses
SplitStatusTokens(statuses) ==
    LET lower == { Lower(Strip(statuses[k])) :
                     k \in { j \in 1..Len(statuses) : Strip(statuses[j]) # "" } }
        sorted == SelectSeq(SortedWords, LAMBDA w : w \in lower)
    IN [order |-> SelectSeq(sorted, LAMBDA w : w \in {"created", "ordered", "received",
                                                      "cancelled", "canceled", "backordered"}),
        approval |-> SelectSeq(sorted, LAMBDA w : w \in {"approved", "pending", "rejected"})]

\* the candidate shapes, in the order they are probed
StrategyShapes ==
    << [order_key |-> "status", approval_key |-> "approval_status", case |-> "lower_csv"],
       [order_key |-> "statuses", approval_key |-> "approval_statuses", case |-> "lower_csv"],
       [order_key |-> "status[]", approval_key |-> "approval_status[]", case |-> "array_lower"],
       [order_key |-> "status", approval_key |-> "approval_status", case |-> "upper_csv"],
       [order_key |-> "filter[status]", approval_key |-> "filter[approval_status]",
        case |-> "lower_csv"] >>

Uppers(vals) == [k \in 1..Len(vals) |-> Upper(vals[k])]
Csv(vals) == [shape |-> "csv", vals |-> vals]
Array(vals) == [shape |-> "array", vals |-> vals]

\* _apply_status_params: the filter parameters, as a set of <<key, value>>;
\* without a strategy every common variant is sent
ApplyStatusParams(order_tokens, approval_tokens, strategy) ==
    LET fmt(case, vals) ==
            CASE case = "upper_csv" -> Csv(Uppers(vals))
              [] case = "array_lower" -> Array(vals)
              [] case = "array_upper" -> Array(Uppers(vals))
              [] OTHER -> Csv(vals)
        multi(prefix, vals) ==
            IF vals = <<>> THEN {}
            ELSE { << prefix, Csv(vals) >>, << prefix \o "es", Csv(vals) >>,
                   << prefix \o "[]", Array(vals \o Uppers(vals)) >> }
        one(key, case, vals) == IF vals = <<>> THEN {} ELSE { << key, fmt(case, vals) >> }
    IN IF ~IsSome(strategy)
       THEN multi("status", order_tokens) \cup multi("approval_status", approval_tokens)
       ELSE one(Val(strategy).order_key, Val(strategy).case, order_tokens)
               \cup one(Val(strategy).approval_key, Val(strategy).case, approval_tokens)

\* a probe that takes any OK answer
ProbeSelectsOk(answer) == answer.status = "200"

\* the probe of a shape selects it: the answer is OK and lists no order, or
\* none whose status is unwanted
ProbeSelects(answer) ==
    /\ answer.status = "200"
    /\ LET obs == { Lower(Strip(answer.orders[k])) : k \in 1..Len(answer.orders) }
       IN obs = {} \/ obs \cap {"received", "cancelled", "canceled"} = {}

\* fetch_order_requests up to the split of the tokens
fetch_order_requests_tokens ==
    /\ fx.pc \in {"call", "done"} /\ fx.calls < MaxCalls
    /\ LET desired == Desired(src.statuses)
           tokens == SplitStatusTokens(desired)
       IN fx' = [fx EXCEPT !.pc = "ensure", !.calls = @ + 1, !.desired = desired,
                           !.order_tokens = tokens.order,
                           !.approval_tokens = tokens.approval]
    /\ UNCHANGED <<svc, now, src, wvars>>

\* _ensure_orders_filter_strategy up to the probe loop
ensure_orders_filter_strategy_enter ==
    /\ fx.pc = "ensure"
    /\ IF svc.orders_filter_strategy_checked
       THEN /\ fx' = [fx EXCEPT !.pc = "params"]
            /\ svc' = svc
       ELSE /\ svc' = [svc EXCEPT
                         !.orders_filter_strategy_checked = TRUE,
                         !.debug = IF fx.desired = <<>>
                                   THEN [orders_filter_discovery_attempted |-> TRUE,
                                         orders_filter_strategy |-> None]
                                   ELSE [orders_filter_discovery_attempted |-> TRUE]]
            /\ fx' = IF fx.desired = <<>> THEN [fx EXCEPT !.pc = "params"]
                     ELSE [fx EXCEPT !.pc = "probe", !.i = 1]
    /\ UNCHANGED <<now, src, wvars>>

\* one turn of the probe loop: the shape is sent against page 1 and selected
\* or passed over; the loop ends at the first selected or after the last
ensure_orders_filter_strategy_probe ==
    /\ fx.pc = "probe"
    /\ LET strat == StrategyShapes[fx.i]
           selected == ProbeSelects(src.answers[fx.i])
           last == selected \/ fx.i = Len(StrategyShapes)
           strategy == IF selected THEN Some(strat) ELSE svc.orders_filter_strategy
       IN /\ wire' = Append(wire, [kind |-> "probe", page |-> 1,
                                   params |-> ApplyStatusParams(fx.order_tokens,
                                                                fx.approval_tokens,
                                                                Some(strat))])
          /\ svc' = [svc EXCEPT
                       !.orders_filter_strategy = strategy,
                       !.debug = IF last
                                 THEN [orders_filter_discovery_attempted |-> TRUE,
                                       orders_filter_strategy |-> strategy]
                                 ELSE @]
          /\ fx' = IF last THEN [fx EXCEPT !.pc = "params"] ELSE [fx EXCEPT !.i = @ + 1]
    /\ UNCHANGED <<now, src, remote, cfg, h, op, args, cur, tries, ret>>

\* the parameters of the fetch are built from the stored strategy and page 1
\* is requested with them
fetch_order_requests_params ==
    /\ fx.pc = "params"
    /\ LET params == ApplyStatusParams(fx.order_tokens, fx.approval_tokens,
                                       svc.orders_filter_strategy)
       IN /\ wire' = Append(wire, [kind |-> "fetch", page |-> 1, params |-> params])
          /\ fx' = [fx EXCEPT !.pc = "done", !.params = params]
    /\ UNCHANGED <<svc, now, src, remote, cfg, h, op, args, cur, tries, ret>>

\* the statuses asked for and the answers of the remote to the five probes
InitStrategy ==
    /\ IdleClient /\ svc = NewService(DefaultCacheTtl)
    /\ src \in [statuses : { <<>>, << "ORDERED " >>, << "Received", "ordered" >>,
                             << "pending", "ORDERED", "" >> },
                answers : [1..StrategyCandidates ->
                             { [status |-> "500", orders |-> <<>>],
                               [status |-> "exc", orders |-> <<>>],
                               [status |-> "200", orders |-> <<>>],
                               [status |-> "200", orders |-> << "ORDERED ", "ordered" >>],
                               [status |-> "200", orders |-> << "ORDERED", "Received" >>] }]]
    /\ fx = [pc |-> "call", calls |-> 0, desired |-> <<>>, order_tokens |-> <<>>,
             approval_tokens |-> <<>>, i |-> 0, params |-> {}]

NextStrategy ==
    \/ fetch_order_requests_tokens
    \/ ensure_orders_filter_strategy_enter
    \/ ensure_orders_filter_strategy_probe
    \/ fetch_order_requests_params

SpecStrategy == InitStrategy /\ [][NextStrategy]_vars

(***************************************************************************)
(* The cache store of the service under threads.  The endpoints run on     *)
(* worker threads against one QuartzyService, whose _cache_get, _cache_set *)
(* and clear_caches take no lock: each is a sequence of steps on           *)
(* self._caches that steps of another thread may come between.  A thread   *)
(* reads the clock at its entry, _cache_set then loads the dictionary it   *)
(* will store into and stores in a later step; clear_caches rebinds        *)
(* self._caches to new dictionaries (svc.caches_id counts them).           *)
(***************************************************************************)
CacheSlots == { << "labs", None >>, << "inventory_search", Some("q") >> }

\* a thread enters _cache_get, _cache_set or clear_caches and reads the clock
cache_op_enter ==
    /\ fx.calls < MaxCalls + 1
    /\ \E t \in Threads, name \in {"_cache_get", "_cache_set", "clear_caches"},
          slot \in CacheSlots :
          /\ fx.th[t].pc = "idle"
          /\ fx' = [fx EXCEPT !.calls = @ + 1,
                              !.th[t] = [pc |-> "entered", op |-> name, key |-> slot[1],
                                         subkey |-> slot[2], now |-> now, into |-> 0,
                                         ret |-> None]]
    /\ UNCHANGED <<svc, now, src, wvars>>

\* _cache_get looks the slot up and returns
cache_get_lookup ==
    /\ \E t \in Threads :
          LET c == fx.th[t]
          IN /\ c.pc = "entered" /\ c.op = "_cache_get"
             /\ fx' = [fx EXCEPT !.th[t].pc = "idle",
                                 !.th[t].ret = CacheGetAt(svc, c.key, c.subkey, c.now)]
    /\ UNCHANGED <<svc, now, src, wvars>>

\* _cache_set loads the dictionary it will store into: self._caches, or the
\* inner dictionary of inventory_search
cache_set_load ==
    /\ \E t \in Threads :
          /\ fx.th[t].pc = "entered" /\ fx.th[t].op = "_cache_set"
          /\ fx' = [fx EXCEPT !.th[t].pc = "store", !.th[t].into = svc.caches_id]
    /\ UNCHANGED <<svc, now, src, wvars>>

\* _cache_set stores the entry into the dictionary it loaded, which is no
\* longer the one of the service when clear_caches came between
cache_set_store ==
    /\ \E t \in Threads :
          LET c == fx.th[t]
          IN /\ c.pc = "store"
             /\ svc' = IF c.into = svc.caches_id
                       THEN CacheSet(svc, c.key, c.subkey, "d", c.now)
                       ELSE svc
             /\ fx' = [fx EXCEPT !.th[t].pc = "idle",
                                 !.stored = @ \cup { << c.key, c.subkey >> }]
    /\ UNCHANGED <<now, src, wvars>>

\* clear_caches rebinds self._caches to blank dictionaries
clear_caches_rebind ==
    /\ \E t \in Threads :
          /\ fx.th[t].pc = "entered" /\ fx.th[t].op = "clear_caches"
          /\ svc' = [ClearCaches(svc) EXCEPT !.caches_id = @ + 1]
          /\ fx' = [fx EXCEPT !.th[t].pc = "idle", !.th[t].ret = Some(TRUE),
                              !.stored = {}]
    /\ UNCHANGED <<now, src, wvars>>

InitThreads ==
    /\ IdleClient /\ src = <<>>
    /\ \E ttl \in 1..MaxTtl : svc = [caches_id |-> 0] @@ NewService(ttl)
    /\ fx = [th |-> [t \in Threads |-> [pc |-> "idle"]], calls |-> 0, stored |-> {}]

NextThreads ==
    \/ tick
    \/ cache_op_enter
    \/ cache_get_lookup
    \/ cache_set_load
    \/ cache_set_store
    \/ clear_caches_rebind

SpecThreads == InitThreads /\ [][NextThreads]_vars

(***************************************************************************)
(* POST /api/submit (app/api/submission.py).  src holds the request (its   *)
(* encoding and its fields, None for a field that is left out) and how the *)
(* integrations answer; fx is the frame of the handler; wire records the   *)
(* calls it makes to the integrations.                                     *)
(***************************************************************************)
\* `x or ""` on an optional text
OrEmpty(o) == IF IsSome(o) THEN Val(o) ELSE ""

\* SubmitRequest(**raw) for a JSON body: form_type and item_name are
\* required, so a body without one of them gives no payload
ParseSubmitRequest(raw) ==
    IF IsSome(raw.form_type) /\ IsSome(raw.item_name)
    THEN Some([raw EXCEPT !.form_type = Val(raw.form_type),
                          !.item_name = Val(raw.item_name)])
    ELSE None

\* the payload synthesized from the legacy form fields
FormSubmitRequest(f) ==
    [f EXCEPT !.form_type = IF IsSome(f.form_type) THEN Val(f.form_type)
                            ELSE IF IsSome(f.task_id) THEN "samples"
                            ELSE IF IsSome(f.order_id) THEN "other" ELSE "samples",
              !.item_name = IF IsSome(f.item_name) THEN Val(f.item_name) ELSE "Unnamed"]

\* the form fields of a request that carries none
NoFormFields ==
    [form_type |-> None, task_id |-> None, order_id |-> None, item_name |-> None,
     supplier |-> None, client |-> None, item_type |-> None, quantity |-> None]

\* the keyword arguments _call_pa_sync hands to Power Automate
PowerAutomateFields(payload) ==
    [item_name |-> payload.item_name, supplier |-> OrEmpty(payload.supplier),
     quantity |-> OrEmpty(payload.quantity), item_type |-> OrEmpty(payload.item_type),
     client |-> OrEmpty(payload.client)]

\* what quartzy_update_order_status answers: a report with an updated flag,
\* or (a stand-in service) one that has a success key of its own
QuartzyAnswer(a) ==
    [kind |-> "dict", partial |-> FALSE,
     success |-> IF a = "success" THEN Some(TRUE) ELSE None, updated |-> a = "updated"]

\* the report as stored without a success key of its own derived
QuartzyStatusReportAsIs(q_resp) == q_resp

\* a report without a success key gets one from its updated flag
QuartzyStatusReport(q_resp) ==
    [q_resp EXCEPT !.success = IF IsSome(@) THEN @ ELSE Some(q_resp.updated)]

SubmitFrame ==
    [pc |-> "bind", payload |-> None, status |-> 0, success_flags |-> <<>>,
     power_automate |-> None, clickup |-> None, quartzy |-> None,
     quartzy_inventory_upsert |-> None, overall_success |-> FALSE]

\* the payload is the JSON body, or is built from the form fields; the
\* framework may refuse a JSON body that is no SubmitRequest
submit_reception_bind ==
    /\ fx.pc = "bind"
    /\ LET parsed == IF src.encoding = "json" THEN ParseSubmitRequest(src.fields) ELSE None
           form == IF src.encoding = "json" THEN NoFormFields ELSE src.fields
       IN fx' = IF src.encoding = "json" /\ ~IsSome(parsed) /\ src.framework = "strict"
                THEN [fx EXCEPT !.pc = "done", !.status = 422]
                ELSE [fx EXCEPT !.pc = "power_automate",
                                !.payload = IF IsSome(parsed) THEN parsed
                                            ELSE Some(FormSubmitRequest(form))]
    /\ UNCHANGED <<svc, now, src, wvars>>

\* Power Automate is called first; a refusal is a result, not an exception
submit_reception_power_automate ==
    /\ fx.pc = "power_automate"
    /\ wire' = Append(wire, [to |-> "power_automate",
                             fields |-> PowerAutomateFields(Val(fx.payload))])
    /\ fx' = [fx EXCEPT
                !.pc = "clickup",
                !.power_automate =
                    CASE src.pa = "ok" -> [kind |-> "tuple", ok |-> TRUE]
                      [] src.pa = "refused" -> [kind |-> "tuple", ok |-> FALSE]
                      [] src.pa = "slow" -> [kind |-> "queued"]
                      [] OTHER -> [kind |-> "error"],
                !.success_flags = Append(@, src.pa # "exc")]
    /\ UNCHANGED <<svc, now, src, remote, cfg, h, op, args, cur, tries, ret>>

\* ClickUp is updated for a samples form with a task id
submit_reception_clickup ==
    /\ fx.pc = "clickup"
    /\ LET payload == Val(fx.payload)
       IN IF payload.form_type = "samples" /\ IsSome(payload.task_id)
          THEN /\ wire' = Append(wire, [to |-> "clickup", fields |-> payload.task_id])
               /\ fx' = [fx EXCEPT
                           !.pc = "quartzy",
                           !.clickup = IF src.clickup = "exc" THEN [kind |-> "error"]
                                       ELSE [kind |-> "dict",
                                             success |-> Some(src.clickup = "success")],
                           !.success_flags = Append(@, src.clickup # "exc")]
          ELSE /\ wire' = wire
               /\ fx' = [fx EXCEPT !.pc = "quartzy", !.clickup = [kind |-> "skipped"]]
    /\ UNCHANGED <<svc, now, src, remote, cfg, h, op, args, cur, tries, ret>>

\* for an other form with an order id the order is marked RECEIVED, unless
\* the reception is partial; the report gets a success key from its updated
\* flag when it has none
submit_reception_quartzy ==
    /\ fx.pc = "quartzy"
    /\ LET payload == Val(fx.payload)
       IN IF payload.form_type = "other" /\ IsSome(payload.order_id)
          THEN IF src.quartzy = "partial"
               THEN /\ wire' = Append(wire, [to |-> "order_adjust", fields |-> payload.order_id])
                    /\ fx' = [fx EXCEPT !.pc = "respond",
                                        !.quartzy = Some([kind |-> "dict", success |-> None,
                                                          partial |-> TRUE, updated |-> FALSE]),
                                        !.success_flags = Append(@, TRUE)]
               ELSE /\ wire' = Append(wire, [to |-> "quartzy_update_order_status",
                                             fields |-> payload.order_id])
                    /\ fx' = [fx EXCEPT
                                !.pc = "respond",
                                !.quartzy =
                                    IF src.quartzy = "exc"
                                    THEN Some([kind |-> "error", success |-> None,
                                               partial |-> FALSE, updated |-> FALSE])
                                    ELSE Some(QuartzyStatusReport(QuartzyAnswer(src.quartzy))),
                                !.success_flags = Append(@, src.quartzy # "exc")]
          ELSE /\ wire' = wire
               /\ fx' = [fx EXCEPT !.pc = "respond"]
    /\ UNCHANGED <<svc, now, src, remote, cfg, h, op, args, cur, tries, ret>>

\* the inventory upsert of an other form is awaited, and the response built
submit_reception_respond ==
    /\ fx.pc = "respond"
    /\ LET payload == Val(fx.payload)
           flags == fx.success_flags
           all_flags == flags # <<>> /\ \A i \in 1..Len(flags) : flags[i]
           pa_ok == fx.power_automate.kind = "tuple" /\ fx.power_automate.ok
           ck_ok == fx.clickup.kind = "dict" /\ fx.clickup.success = Some(TRUE)
           q_ok == IsSome(fx.quartzy) /\ Val(fx.quartzy).kind = "dict"
                      /\ Val(fx.quartzy).success = Some(TRUE)
       IN fx' = [fx EXCEPT
                   !.pc = "done", !.status = 200,
                   !.quartzy_inventory_upsert =
                       IF payload.form_type # "other" THEN None
                       ELSE IF src.inventory = "exc" THEN Some([kind |-> "error"])
                       ELSE Some([kind |-> "dict"]),
                   !.overall_success = all_flags \/ pa_ok \/ ck_ok \/ q_ok]
    /\ UNCHANGED <<svc, now, src, wvars>>

\* the requests submitted and the answers of the integrations
InitSubmit ==
    /\ IdleClient /\ svc = NewService(DefaultCacheTtl)
    /\ fx = SubmitFrame
    /\ src \in [encoding : {"json", "form"}, framework : {"lenient", "strict"},
                fields : [form_type : {Some("samples"), Some("other")},
                          task_id : {None, Some("t1")}, order_id : {None, Some("o1")},
                          item_name : {None, Some("Buffer")},
                          supplier : {None, Some("Sigma")}, client : {None, Some("ACME")},
                          item_type : {Some("Samples")}, quantity : {Some("3")}],
                pa : {"ok", "refused", "slow", "exc"},
                clickup : {"success", "failure", "exc"},
                quartzy : {"success", "updated", "refused", "exc", "partial"},
                inventory : {"dict", "exc"}]
    /\ src.encoding = "form" => src.framework = "lenient"
    /\ (Val(src.fields.form_type) # "samples" \/ ~IsSome(src.fields.task_id))
          => src.clickup = "success"
    /\ (Val(src.fields.form_type) # "other" \/ ~IsSome(src.fields.order_id))
          => src.quartzy = "success"
    /\ Val(src.fields.form_type) # "other" => src.inventory = "dict"

NextSubmit ==
    \/ submit_reception_bind
    \/ submit_reception_power_automate
    \/ submit_reception_clickup
    \/ submit_reception_quartzy
    \/ submit_reception_respond

SpecSubmit == InitSubmit /\ [][NextSubmit]_vars

(***************************************************************************)
(* Endpoint discovery.  The remote answers the page-1 probe of each        *)
(* candidate endpoint in one of these ways: "list" (200, a JSON list),     *)
(* "wrapped" (200, an object holding the list under a known key), "object" *)
(* (200, an object without such a key), "text" (200, a body that is not    *)
(* JSON), "404", "403" (a non-OK status other than 404), "exc" (the        *)
(* request raises).                                                        *)
(***************************************************************************)
ProbeAnswers == { "list", "wrapped", "object", "text", "404", "403", "exc" }

\* the items the inventory listing holds
InventoryListing == << [id |-> "i1"], [id |-> "i2"] >>

\* _candidate_inventory_endpoints: <<path, with_lab_id>> in probe order
CandidateInventoryEndpoints(lid) ==
    IF lid
    THEN << <<"/inventory-items", TRUE>>, <<"/api/v2/inventory-items", TRUE>>,
            <<"/labs/{lid}/inventory-items", FALSE>>,
            <<"/api/v2/labs/{lid}/inventory-items", FALSE>>,
            <<"/inventory_items", TRUE>>, <<"/labs/{lid}/inventory_items", FALSE>> >>
    ELSE << <<"/inventory-items", TRUE>>, <<"/api/v2/inventory-items", TRUE>>,
            <<"/inventory_items", TRUE>> >>

\* the response to a GET of page 1 that did not raise: status and decoded body
\* (None where resp.json() is not called or the body is not JSON)
ProbeResponse(answer) ==
    CASE answer = "list" ->
            [status |-> 200, json |-> Some([shape |-> "list", val |-> InventoryListing])]
      [] answer = "wrapped" ->
            [status |-> 200, json |-> Some([shape |-> "dict", key |-> "inventory_items",
                                           val |-> InventoryListing])]
      [] answer = "object" ->
            [status |-> 200, json |-> Some([shape |-> "dict", key |-> "message",
                                           val |-> InventoryListing])]
      [] answer = "text" -> [status |-> 200, json |-> None]
      [] answer = "404" -> [status |-> 404, json |-> None]
      [] OTHER -> [status |-> 403, json |-> None]

\* _parse_inventory_payload: the list itself, the list under a wrapper key,
\* or the empty list; the result is never None
ParseInventoryPayload(data) ==
    IF ~IsSome(data) THEN Some(<<>>)
    ELSE IF Val(data).shape = "list" THEN Some(Val(data).val)
    ELSE IF Val(data).key \in {"inventory_items", "inventoryItems", "items", "data", "results"}
    THEN Some(Val(data).val)
    ELSE Some(<<>>)

\* one turn of the loop of _choose_inventory_endpoint on candidate i:
\* the attempt records it appends, and the items when the candidate is taken
ProbeCandidate(i, answer) ==
    LET resp == ProbeResponse(answer)
        sent == [endpoint |-> i, status |-> Some(resp.status)]
        raised == [endpoint |-> i, status |-> None]
    IN IF answer = "exc" THEN [attempts |-> << raised >>, items |-> None]
       ELSE IF resp.status = 404 THEN [attempts |-> << sent >>, items |-> None]
       ELSE IF resp.status = 200 /\ ~IsSome(resp.json)
       THEN [attempts |-> << sent, raised >>, items |-> None]
       ELSE [attempts |-> << sent >>,
             items |-> ParseInventoryPayload(IF resp.status = 200 THEN resp.json ELSE None)]

\* the frame of call number n of fetch_inventory_items_fast
ProbeFrame(n, sent) ==
    [op |-> "fetch_inventory_items_fast", call |-> n, pc |-> "probe", i |-> 1,
     attempts |-> <<>>, ep |-> None, first_items |-> <<>>, results |-> <<>>,
     outcome |-> "none", sent |-> sent]

\* _choose_inventory_endpoint, one candidate per step; the last step records
\* the selection and the attempts in the debug record
choose_inventory_endpoint_probe ==
    /\ fx.op = "fetch_inventory_items_fast" /\ fx.pc = "probe"
    /\ LET n == Len(CandidateInventoryEndpoints(src.lid))
           r == ProbeCandidate(fx.i, src.answers[fx.i])
           f1 == [fx EXCEPT !.attempts = @ \o r.attempts,
                            !.sent = Append(@, [call |-> fx.call, kind |-> "probe",
                                                endpoint |-> fx.i])]
           done == IsSome(r.items) \/ fx.i = n
           selected == IF IsSome(r.items) THEN Some(fx.i) ELSE None
       IN /\ fx' = IF IsSome(r.items)
                   THEN [f1 EXCEPT !.pc = "found", !.ep = selected,
                                   !.first_items = Val(r.items)]
                   ELSE IF fx.i = n THEN [f1 EXCEPT !.pc = "found"]
                   ELSE [f1 EXCEPT !.i = @ + 1]
          /\ svc' = IF done
                    THEN [svc EXCEPT !.debug =
                            [inventory_endpoint_selected |-> selected,
                             inventory_endpoint_probe_attempts |-> f1.attempts]]
                    ELSE svc
    /\ UNCHANGED <<now, src, wvars>>

\* fetch_inventory_items_fast after the discovery: nothing found returns the
\* empty list; otherwise page 1 of the chosen endpoint is requested again and,
\* the listing being a single page, the first items are returned
fetch_inventory_items_fast_listing ==
    /\ fx.op = "fetch_inventory_items_fast" /\ fx.pc = "found"
    /\ fx' = IF ~IsSome(fx.ep) THEN Return(fx)
             ELSE LET f1 == [fx EXCEPT !.sent = Append(@, [call |-> fx.call, kind |-> "page",
                                                           endpoint |-> Val(fx.ep)])]
                  IN Return([f1 EXCEPT !.results = fx.first_items])
    /\ UNCHANGED <<svc, now, src, wvars>>

\* the next call of fetch_inventory_items_fast on the same instance
fetch_inventory_items_fast_call ==
    /\ fx.op = "fetch_inventory_items_fast" /\ fx.pc = "done"
    /\ fx.call < MaxCalls
    /\ fx' = ProbeFrame(fx.call + 1, fx.sent)
    /\ UNCHANGED <<svc, now, src, wvars>>

\* the answers of the remote to the candidates: any, for the three candidates
\* of a service without lab id; with a lab id, six candidates answered by a
\* list, a 404 or another non-OK status
InitProbe ==
    /\ IdleClient /\ svc = NewService(DefaultCacheTtl)
    /\ \/ src \in [answers : [1..3 -> ProbeAnswers], lid : {FALSE}]
       \/ src \in [answers : [1..6 -> {"list", "404", "403"}], lid : {TRUE}]
    /\ fx = ProbeFrame(1, <<>>)

NextProbe ==
    \/ choose_inventory_endpoint_probe
    \/ fetch_inventory_items_fast_listing
    \/ fetch_inventory_items_fast_call

SpecProbe == InitProbe /\ [][NextProbe]_vars

(***************************************************************************)
WriteOps ==
    { "update_inventory_item", "update_order_request_status",
      "update_order_request_notes", "create_inventory_item" }
WriteMethods == { "PUT", "PATCH", "POST" }

DirectWrite == h.name = "direct" /\ op \in WriteOps

\* request k is the first one of the call that was answered OK
FirstOk(k) ==
    /\ wire[k].answer = "200"
    /\ \A j \in 1..(k - 1) : wire[j].answer # "200"

\* C1: in a write operation, when the k-th request issued is the first one
\* answered OK, no request is issued after it and the report returned is a
\* success whose attempt log has exactly k entries.
C1_WriteShortCircuit ==
    DirectWrite =>
        \A k \in 1..Len(wire) :
            FirstOk(k) =>
                /\ Len(wire) = k
                /\ ret.kind = "return" /\ ret.ok
                /\ IsSome(ret.attempts) /\ Len(Val(ret.attempts)) = k

\* the call got past the method's argument and configuration guards
PastGuards ==
    CASE op = "update_inventory_item" -> ~Falsy(args.item_id)
      [] op = "update_order_request_status" -> ~Falsy(args.order_id) /\ cfg.enabled
      [] op = "update_order_request_notes" ->
             ~Falsy(args.order_id) /\ args.has_notes /\ cfg.enabled
      [] op = "create_inventory_item" -> ~Falsy(args.item_name)
      [] OTHER -> FALSE

NoneOk == \A k \in 1..Len(wire) : wire[k].answer # "200"

\* entry e of the attempt log is the record of the request w on the wire
Logs(e, w) ==
    /\ e.url = w.url /\ e.method = w.method
    /\ IF w.answer = "exc" THEN e.exc ELSE ~e.exc /\ e.status = w.answer

RECURSIVE Product(_)
Product(sizes) == IF sizes = <<>> THEN 1 ELSE sizes[1] * Product(Tail(sizes))

\* the number of candidates the running write operation has to go through
Candidates ==
    CASE op = "update_inventory_item" ->
             1 + Product(UIILoopSizes(args)) + Len(InventoryGetPaths)
               + Len(FallbackPutBodies) + Product(UIIJsonApiSizes(args))
      [] op = "update_order_request_status" -> Product(UORSSizes(args))
      [] op = "update_order_request_notes" -> Product(UORNSizes)
      [] op = "create_inventory_item" ->
             Product(CreateSizes(args)) + Len(InventoryCreatePaths(cfg.lid))

\* C2: when no request is answered OK, a write operation never stops short of
\* a report (a raised request is logged like a refused one and the next
\* candidate is tried, and the candidates run out), and the report it returns
\* is a failure whose attempts list holds exactly one entry per request issued,
\* in issue order.
C2_ExhaustionNeverRaises ==
    (DirectWrite /\ PastGuards /\ NoneOk) =>
        /\ Len(tries) = Len(wire)
        /\ \A k \in 1..Len(wire) : Logs(tries[k], wire[k])
        /\ Len(wire) <= Candidates
        /\ ret.kind = "none" => cur.phase # "end"
        /\ ret.kind # "none" =>
              /\ ret.kind = "return" /\ ~ret.ok
              /\ ret.attempts = Some(tries)

\* a write operation that ran out of candidates after refusals, a 404 and a
\* raised request
C2_Witness ==
    /\ DirectWrite /\ PastGuards /\ NoneOk
    /\ ret.kind = "return" /\ ~ret.ok
    /\ Len(wire) >= 3
    /\ \E k \in 1..Len(wire) : wire[k].answer = "exc"
    /\ \E k \in 1..Len(wire) : wire[k].answer = "404"

\* C3: once a request of the candidate loop is answered 404, no later request
\* of the loop goes to the same path.
C3_NotFoundSkipsPath ==
    DirectWrite =>
        \A k \in 1..Len(wire) : \A j \in (k + 1)..Len(wire) :
            (wire[k].phase = "loop" /\ wire[k].answer = "404" /\ wire[j].phase = "loop")
                => wire[j].url # wire[k].url

\* the additive updates: a delta applied to the quantity read from the remote
AdditiveDelta ==
    CASE h.name = "inventory_update" -> h.payload.add_quantity
      [] h.name = "receive_order_basic" -> Some(h.recv)
      [] h.name = "do_inventory_upsert" -> Some(UpsertReceived(h.payload.quantity))
      [] OTHER -> None
Additive ==
    \/ h.name = "inventory_update" /\ ~Falsy(h.payload.item_id)
          /\ h.payload.new_quantity = None /\ IsSome(h.payload.add_quantity)
    \/ h.name = "receive_order_basic"
    \/ h.name = "do_inventory_upsert"
\* the read of the current quantity succeeds against this remote
ReadOk == remote.get.item = "200" /\ IsSome(remote.item.quantity)
ItemWrites == { k \in 1..Len(wire) : wire[k].by = "update_inventory_item"
                                        /\ wire[k].method \in WriteMethods }
ItemReads == { k \in 1..Len(wire) : wire[k].by = "get_inventory_item" }

\* C4: an additive update reads the current quantity c before it writes, every
\* write carries max(0, c + d), and the report's target quantity is max(0, c + d).
C4_AdditiveTarget ==
    (Additive /\ ReadOk /\ h.name # "do_inventory_upsert") =>
        LET t == Some(Max(0, Val(remote.item.quantity) + Val(AdditiveDelta)))
        IN /\ \A k \in ItemWrites :
                 /\ wire[k].qty = t
                 /\ \E j \in ItemReads : j < k
           /\ (h.stage = "done" /\ h.resp.kind = "return" /\ IsSome(h.resp.target))
                 => h.resp.target = t

\* C5: when the read of the current quantity fails, an additive update issues
\* no write at all.
C5_FailedReadNoWrite ==
    (Additive /\ ~ReadOk) => ItemWrites = {}

IdOps ==
    { "update_inventory_item", "get_inventory_item", "update_order_request_status",
      "update_order_request_notes", "get_order_request" }
CallId ==
    IF op \in {"update_inventory_item", "get_inventory_item"}
    THEN args.item_id ELSE args.order_id
MissingIdReason ==
    IF op \in {"update_inventory_item", "get_inventory_item"}
    THEN "missing_item_id" ELSE "missing_order_id"

\* C6: a call with a missing or empty identifier issues no HTTP request and
\* returns the reason missing_item_id / missing_order_id, a reason no call that
\* went to the network returns.
C6_MissingIdBeforeNetwork ==
    /\ (h.name = "direct" /\ op \in IdOps /\ CallId = "") =>
          /\ wire = <<>>
          /\ ret.kind = "return" => (~ret.ok /\ ret.error = MissingIdReason)
    /\ (h.name = "receive_order_basic" /\ h.payload.order_id = "") =>
          /\ wire = <<>>
          /\ h.stage = "done" => (~h.resp.ok /\ h.resp.error = "missing_order_id")
    /\ (h.name = "direct" /\ ret.kind = "return" /\ wire # <<>>) =>
          ret.error \notin {"missing_item_id", "missing_order_id"}

\* a writer refused an empty identifier, with nothing sent
C6_Witness ==
    /\ h.name = "direct" /\ op = "update_order_request_status"
    /\ args.order_id = ""
    /\ ret.kind = "return" /\ ret.error = "missing_order_id" /\ wire = <<>>

(***************************************************************************)
(* Properties of the fetch engine, checked under SpecFetch and SpecScan.   *)
(***************************************************************************)
\* the identifiers of the items of pages 1..T of the source
AllItems == UNION { { PageItems(p)[k] : k \in 1..PageLen(p) } : p \in 1..src.T }
ResultIds == { fx.results[i].id : i \in 1..Len(fx.results) }
EveryFetchSucceeds == src.failPage = 0 /\ src.again = "same"
Fetched == fx.pc = "done"

\* C7: when page 1 advertises a total T > 1 and every page fetch succeeds, the
\* fetch of orders without a status filter and the fetch of inventory items
\* return the items of pages 1..T, each exactly once, whatever the pool size
\* and the order in which the pages finish.
C7_CompleteWithoutDuplicates ==
    (Fetched /\ src.advertise = "total" /\ src.T > 1 /\ EveryFetchSucceeds
        /\ fx.statuses = <<>>) =>
        /\ fx.outcome = "return"
        /\ ResultIds = { it.id : it \in AllItems }
        /\ Len(fx.results) = Cardinality(AllItems)

\* a fetch of three pages through a pool of two workers in which page 3 was
\* taken before page 2
C7_Witness ==
    /\ Fetched /\ src.advertise = "total" /\ src.T = 3 /\ EveryFetchSucceeds
    /\ fx.statuses = <<>> /\ fx.max_workers = 2
    /\ \E i, j \in 1..Len(fx.log) :
          i < j /\ fx.log[i] = Taken(3, 0) /\ fx.log[j] = Taken(2, 0)
    /\ Cardinality(ResultIds) = Cardinality(AllItems)

\* equality of two statuses, letter case aside
EqualsIgnoringCase(a, b) == Lower(a) = Lower(b)

\* the items of the source whose status is one of the requested ones
Wanted ==
    { it \in AllItems :
        \E k \in 1..Len(fx.statuses) :
            EqualsIgnoringCase(ExtractStatus(it), fx.statuses[k]) }

\* C8: for requested statuses S and a known total of T pages, the order fetch
\* returns exactly the items of pages 1..T whose status equals a member of S,
\* letter case aside, and reports T pages.
C8_LocalPostFilter ==
    (Fetched /\ fx.op = "fetch_order_requests_fast" /\ src.advertise = "total"
        /\ EveryFetchSucceeds /\ fx.statuses # <<>>) =>
        /\ fx.outcome = "return"
        /\ ResultIds = { it.id : it \in Wanted }
        /\ Len(fx.results) = Cardinality(Wanted)
        /\ fx.pages = src.T

\* 3 pages, 6 items, 4 of them ORDERED in some letter case: 4 items and 3 pages
C8_Witness ==
    /\ Fetched /\ fx.op = "fetch_order_requests_fast" /\ src.advertise = "total"
    /\ EveryFetchSucceeds /\ fx.statuses = << "ORDERED" >>
    /\ src.T = 3 /\ Cardinality(AllItems) = 6
    /\ Len(fx.results) = 4 /\ fx.pages = 3
    /\ \E i \in 1..Len(fx.results) : fx.results[i].status = "ordered"

\* the scenario of C9: non-empty pages forever, every fetch succeeds, no new
\* location or sub-location after page 3
NoNewValueAfterPage3 ==
    /\ fx.op = "collect_lab_locations_fast" /\ src.forever /\ EveryFetchSucceeds
    /\ src.tail[1] \in { src.vals[p][1] : p \in 1..3 }
    /\ src.tail[2] \in { src.vals[p][2] : p \in 1..3 } \cup {""}

\* the positions in the trace at which a page of the scan was taken
ScanDone == { i \in 1..Len(fx.log) : fx.log[i].ev = "done" /\ fx.log[i].page >= 2 }
\* three pages taken in a row before position i added no new value
ThreeNoGrowthBefore(i) ==
    \E a, b, c \in ScanDone :
        /\ a < b /\ b < c /\ c < i
        /\ \A d \in ScanDone : (a <= d /\ d <= c) => d \in {a, b, c}
        /\ \A d \in {a, b, c} : fx.log[d].added = 0

\* C9: in the scenario, once three pages in a row have been taken without a
\* new value no further page is requested.
C9_EarlyStop ==
    NoNewValueAfterPage3 =>
        \A i \in 1..Len(fx.log) :
            fx.log[i].ev = "sent" => ~ThreeNoGrowthBefore(i)

\* the items of page p that pass the filter of the call
Passing(p) == FilterByStatusExact(PageItems(p), fx.statuses)

\* C10: when the fetch of a page p >= 2 fails, no exception reaches the
\* caller, every other page of the source is still fetched, and the result
\* holds the items of every page whose fetch succeeded.
C10_FailedPageNoAbort ==
    (src.failPage >= 2 /\ src.again = "same") =>
        /\ fx.outcome # "raise"
        /\ Fetched =>
              \A p \in (1..src.T) \ {src.failPage} :
                  /\ \E i \in 1..Len(fx.log) : fx.log[i] = SentPage(p)
                  /\ \A k \in 1..Len(Passing(p)) : Passing(p)[k].id \in ResultIds

\* C11: when page 1 fails, by a non-OK answer or by a network exception, the
\* fast order fetch does not raise, returns no items, and requests page 1
\* once and no further page.
C11_PageOneFailure ==
    (fx.op = "fetch_order_requests_fast" /\ src.failPage = 1) =>
        /\ fx.outcome # "raise"
        /\ \A i \in 1..Len(fx.log) : fx.log[i].page = 1
        /\ Fetched => (fx.results = <<>> /\ fx.log[1] = SentPage(1))

(***************************************************************************)
(* Properties of the endpoint discovery, checked under SpecProbe.          *)
(***************************************************************************)
\* the candidates whose answer is OK and parses into a list
Parseable == { i \in DOMAIN src.answers : src.answers[i] \in {"list", "wrapped"} }
Discovered == fx.pc \in {"found", "done"}

\* C12: the discovery selects the first candidate whose answer is OK and
\* parses into a list; a candidate answered by a non-OK status, by a body
\* that holds no list or by an exception is passed over, never selected.
C12_FirstParseableCandidate ==
    Discovered =>
        IF Parseable = {} THEN fx.ep = None
        ELSE /\ IsSome(fx.ep) /\ Val(fx.ep) \in Parseable
             /\ \A j \in Parseable : Val(fx.ep) <= j

\* C13: when every candidate fails, the discovery finds nothing, leaves one
\* attempt record per candidate in probe order, raises nothing, and the
\* inventory fetch returns the empty list.
C13_DiscoveryNotFound ==
    (Discovered /\ Parseable = {}) =>
        LET attempts == svc.debug.inventory_endpoint_probe_attempts
        IN /\ fx.ep = None /\ fx.outcome # "raise"
           /\ Len(attempts) = Len(src.answers)
           /\ \A i \in 1..Len(attempts) : attempts[i].endpoint = i
           /\ fx.pc = "done" => (fx.outcome = "return" /\ fx.results = <<>>)

\* C14: after a discovery that succeeded, a later inventory fetch on the same
\* instance sends no probe request.
C14_DiscoveryOnce ==
    Parseable # {} =>
        \A k \in 1..Len(fx.sent) :
            fx.sent[k].call >= 2 => fx.sent[k].kind # "probe"

(***************************************************************************)
(* Properties of the caches, checked under SpecCache.                      *)
(***************************************************************************)
\* the slots that hold a written value: <<key, subkey, entry>>
WrittenSlots ==
    { <<k, None, svc.caches[k]>> :
        k \in { x \in DOMAIN svc.caches \ {"inventory_search"} :
                  IsSome(svc.caches[x].data) } }
    \cup { <<"inventory_search", Some(q), svc.caches.inventory_search[q]>> :
             q \in DOMAIN svc.caches.inventory_search }

\* the instants a read is tried at
Instants == 0..(MaxClock + MaxTtl + 1)

\* C16: a value written at time T is what a read returns at every time up to
\* T + TTL, and a read at any later time reports a miss.
C16_CacheTtl ==
    \A w \in WrittenSlots : \A t \in Instants :
        CacheGetAt(svc, w[1], w[2], t) =
            IF t <= w[3].ts + svc.cache_ttl THEN w[3].data ELSE None

\* list_labs found its slot, written earlier, too old and went to the remote
C16_Witness ==
    /\ fx.op = "list_labs" /\ ~fx.args.refresh /\ fx.sent = 1 /\ ~fx.ok
    /\ IsSome(svc.caches.labs.data)
    /\ fx.at > svc.caches.labs.ts + svc.cache_ttl

\* the keys a read may name
CacheKeys ==
    DOMAIN svc.caches \cup DOMAIN BlankCaches \cup { LocationsKey("L1"), LocationsKey("") }
CalledNow(name) == fx'.calls = fx.calls + 1 /\ fx'.op = name

\* C17: right after clear_caches every read, of any key and subkey at any
\* time, reports a miss, and the discovered filter strategy, its checked flag
\* and the debug record are what they were.
C17_ClearFrame ==
    [][CalledNow("clear_caches") =>
          /\ \A k \in CacheKeys, sub \in {None, Some("tube")}, t \in Instants :
                CacheGetAt(svc', k, sub, t) = None
          /\ svc'.orders_filter_strategy = svc.orders_filter_strategy
          /\ svc'.orders_filter_strategy_checked = svc.orders_filter_strategy_checked
          /\ svc'.debug = svc.debug]_vars

\* the caches were cleared after a read had stored the locations of a lab
C17_Witness ==
    /\ fx.op = "clear_caches" /\ svc.caches = BlankCaches
    /\ \E i \in 1..Len(wire) :
          wire[i] = [by |-> "collect_lab_locations_fast", answer |-> "ok"]
    /\ svc.orders_filter_strategy_checked /\ svc.debug # <<>>

CachedReads ==
    { "collect_lab_locations_fast", "list_labs", "list_types", "inventory_search" }

\* C18: a read that follows a successful read with the same arguments within
\* the TTL, neither asking for a refresh, sends no request and returns the
\* value the first one stored.
C18_CachedReads ==
    [][(/\ fx.op \in CachedReads /\ fx.ok /\ ~fx.args.refresh
        /\ CalledNow(fx.op) /\ fx'.args = fx.args
        /\ now - fx.at <= svc.cache_ttl) =>
          (wire' = wire /\ fx'.ret = fx.ret)]_vars

\* the locations were served from the cache some time after they were stored
C18_Witness ==
    /\ fx.op = "collect_lab_locations_fast" /\ fx.calls = 2 /\ fx.sent = 0
    /\ fx.at > 0 /\ Len(wire) = 2 /\ wire[1].answer = "ok"
    /\ fx.ret = Listing("collect_lab_locations_fast")

(***************************************************************************)
(* Properties of fetch_order_requests, checked under SpecOrders.           *)
(***************************************************************************)
\* the calls that sent a request of the strategy probe loop
ProbingCalls == { wire[i].call : i \in { j \in 1..Len(wire) : wire[j].kind = "probe" } }

\* C15: over any sequence and interleaving of fetch_order_requests calls on
\* one instance, at most one call runs the strategy probe loop.
C15_StrategyProbedOnce == Cardinality(ProbingCalls) <= 1

\* the threads whose call has returned
ReturnedThreads == { t \in Threads : fx.th[t].pc = "done" }

\* C19: a successful fetch_order_requests leaves its result in the orders
\* cache, and a call begun within the TTL of a successful one sends no
\* request.
C19_OrdersCache ==
    \A t \in ReturnedThreads :
        /\ fx.th[t].ok => IsSome(svc.caches.orders.data)
        /\ fx.th[t].in_ttl =>
              \A i \in 1..Len(wire) : wire[i].call # fx.th[t].call

(***************************************************************************)
(* Properties of the matching engine, checked under SpecMatch.             *)
(***************************************************************************)
\* the catalog number of a record equals the query's, both normalized
ExactCatalog(c) ==
    /\ Norm(fx.args.query.catalog_number) # <<>>
    /\ Norm(c.catalog_number) = Norm(fx.args.query.catalog_number)

\* the score of a record comes from name and vendor similarity alone
FuzzyOnly(c) ==
    /\ ~ExactCatalog(c)
    /\ CatalogScore(Norm(fx.args.query.catalog_number), Norm(c.catalog_number)) = 0
    /\ Norm(c.item_name) # Norm(fx.args.query.item_name)
    /\ Norm(c.vendor_name) # Norm(fx.args.query.vendor_name)

\* C20: in the candidates find_inventory_candidates returns, every record
\* with an exact catalog match stands before every fuzzy-only record, and
\* no exact catalog match of the listing is cut off while a fuzzy-only
\* record is returned.
C20_ExactCatalogFirst ==
    fx.op = "find_inventory_candidates" =>
        LET cs == fx.ret.candidates
            fuzzy == { j \in 1..Len(cs) : FuzzyOnly(cs[j]) }
        IN /\ \A i \in 1..Len(cs), j \in fuzzy : ExactCatalog(cs[i]) => i < j
           /\ fuzzy # {} =>
                \A k \in 1..Len(src.items) :
                    ExactCatalog([catalog_number |-> ExtractInvCatalog(src.items[k])])
                        => \E i \in 1..Len(cs) : cs[i].id = src.items[k].id

\* a fuzzy-only item listed first, with the name that sorts first, is
\* returned after an exact catalog match
C20_Witness ==
    /\ fx.op = "find_inventory_candidates"
    /\ Len(src.items) >= 2
    /\ TextLess(src.items[1].name, src.items[2].name)
    /\ Len(fx.ret.candidates) = 2
    /\ ExactCatalog(fx.ret.candidates[1]) /\ fx.ret.candidates[1].id = src.items[2].id
    /\ FuzzyOnly(fx.ret.candidates[2]) /\ fx.ret.candidates[2].id = src.items[1].id

\* the points of one signal: it applies only to two non-empty texts
Signal(q_text, text, applies, points) ==
    IF q_text # <<>> /\ text # <<>> /\ applies THEN points ELSE 0

\* 100 * the similarity of two non-empty texts, rounded down
Similarity(a, b) ==
    IF a = <<>> \/ b = <<>> THEN 0 ELSE (200 * MatchCount[a, b]) \div (Len(a) + Len(b))

\* the sum of the signals of a record against the query of the call
SignalSum(c) ==
    LET q_cat == Norm(fx.args.query.catalog_number)
        q_name == Norm(fx.args.query.item_name)
        q_vendor == Norm(fx.args.query.vendor_name)
        cn == Norm(c.catalog_number)
        nm == Norm(c.item_name)
        vn == Norm(c.vendor_name)
        contained == Contains(q_cat, cn) \/ Contains(cn, q_cat)
        rn == Similarity(q_name, nm)
        rv == Similarity(q_vendor, vn)
    IN Signal(q_cat, cn, q_cat = cn, 100)
       + Signal(q_cat, cn, q_cat # cn /\ contained, 60)
       + Signal(q_name, nm, q_name = nm, 40)
       + Signal(q_vendor, vn, q_vendor = vn, 20)
       + Signal(q_name, nm, rn >= 92, 30)
       + Signal(q_name, nm, rn >= 85 /\ rn < 92, 20)
       + Signal(q_name, nm, rn >= 75 /\ rn < 85, 10)
       + Signal(q_vendor, vn, rv >= 92, 12)
       + Signal(q_vendor, vn, rv >= 85 /\ rv < 92, 8)
       + Signal(q_vendor, vn, rv >= 75 /\ rv < 85, 4)

\* C22: the score of every returned record is the sum of all the signals
\* that apply to it: catalog 100 or else 60, name 40, vendor 20, name
\* similarity 30/20/10, vendor similarity 12/8/4, each only between two
\* non-empty texts.
C22_AdditiveScore ==
    fx.op = "find_inventory_candidates" =>
        \A i \in 1..Len(fx.ret.candidates) :
            fx.ret.candidates[i].score = SignalSum(fx.ret.candidates[i])

\* a returned record to which the exact catalog, the exact name and the name
\* similarity signals apply together
C22_Witness ==
    /\ fx.op = "find_inventory_candidates"
    /\ \E i \in 1..Len(fx.ret.candidates) :
          /\ ExactCatalog(fx.ret.candidates[i])
          /\ Norm(fx.ret.candidates[i].item_name) = Norm(fx.args.query.item_name)
          /\ fx.ret.candidates[i].score = 170

\* the items of the listing that score against the query of the call
Scoring == { k \in 1..Len(src.items) : Score(src.items[k], fx.args.query) > 0 }

\* C23: find_inventory_candidates returns only records that score, by
\* falling score and, within one score, by rising item name: the first
\* max(1, limit) of them; find_inventory_match_best finds exactly when an item
\* scores, and returns the first of that ranking.
C23_RankingShape ==
    /\ fx.op = "find_inventory_candidates" =>
          LET cs == fx.ret.candidates
          IN /\ \A i \in 1..Len(cs) : cs[i].score > 0
             /\ \A i, j \in 1..Len(cs) : i < j =>
                   /\ cs[i].score >= cs[j].score
                   /\ cs[i].score = cs[j].score => ~TextLess(cs[j].item_name, cs[i].item_name)
             /\ Len(cs) = Min(Cardinality(Scoring), Max(1, fx.args.limit))
             /\ fx.ret.count = Cardinality(Scoring)
             /\ \A i \in 1..Len(cs) : \E k \in Scoring :
                   /\ cs[i].id = src.items[k].id
                   /\ cs[i].score = Score(src.items[k], fx.args.query)
             /\ \A k \in Scoring :
                   \/ \E i \in 1..Len(cs) : cs[i].id = src.items[k].id
                   \/ /\ Score(src.items[k], fx.args.query) <= cs[Len(cs)].score
                      /\ Score(src.items[k], fx.args.query) = cs[Len(cs)].score
                            => ~TextLess(src.items[k].name, cs[Len(cs)].item_name)
    /\ fx.op = "find_inventory_match_best" =>
          /\ fx.ret.found = (Scoring # {})
          /\ fx.ret.found =>
                \A k \in Scoring :
                    /\ Score(src.items[k], fx.args.query) <= fx.ret.item.score
                    /\ Score(src.items[k], fx.args.query) = fx.ret.item.score
                          => ~TextLess(src.items[k].name, fx.ret.item.item_name)

\* two items of one score are listed with the later name first, and both
\* are returned
C23_Witness ==
    /\ fx.op = "find_inventory_candidates"
    /\ Len(src.items) = 2 /\ Cardinality(Scoring) = 2
    /\ Score(src.items[1], fx.args.query) = Score(src.items[2], fx.args.query)
    /\ TextLess(src.items[2].name, src.items[1].name)
    /\ Len(fx.ret.candidates) = 2
    /\ fx.ret.candidates[1].id = src.items[2].id
    /\ fx.ret.candidates[2].id = src.items[1].id

(***************************************************************************)
(* Properties of the ranking of a fetched listing, checked under SpecRank. *)
(***************************************************************************)
\* C21: against one remote inventory and one query, every call of
\* find_inventory_candidates returns the same ordered list, whatever the
\* order in which the pages of the fan-out complete.
C21_SameRanking ==
    \A i, j \in 1..Len(fx.rankings) : fx.rankings[i] = fx.rankings[j]

(***************************************************************************)
(* Further properties of the writers and the handlers, checked under Spec. *)
(***************************************************************************)
\* C24: every request the client sends that is not a read is a PUT or a
\* PATCH; no POST is sent.
C24_NoPost ==
    \A k \in 1..Len(wire) : wire[k].method # "GET" => wire[k].method \in {"PUT", "PATCH"}

\* the writes update_inventory_item has sent
UIIWrites ==
    { k \in 1..Len(wire) : wire[k].by = "update_inventory_item" /\ wire[k].method # "GET" }

\* C25: in the submission flow a UI quantity-update job is started only when
\* update_inventory_item has returned updated = false at the end of its
\* candidates, none of its writes having been accepted; the job is the only
\* one of the submission, and none is started when the update succeeded.
C25_HandOffAfterExhaustion ==
    [][/\ h'.ui_jobs # h.ui_jobs =>
            /\ h.name = "do_inventory_upsert" /\ h.stage = "write"
            /\ h.ui_jobs = 0 /\ h'.ui_jobs = 1
            /\ op = "update_inventory_item" /\ Returned /\ ~ret.ok
            /\ ret.error = "no_variant_succeeded" /\ cur = UIIEnd
            /\ \A k \in UIIWrites : ~IsOk(wire[k].answer)
       /\ (h.name = "do_inventory_upsert" /\ h.stage = "write" /\ h'.stage = "done"
             /\ ret.ok) => h'.ui_jobs = 0]_vars

\* a submission whose update sent writes, all refused, and started the job
C25_Witness ==
    /\ h.name = "do_inventory_upsert" /\ h.stage = "done" /\ h.ui_jobs = 1
    /\ Cardinality(UIIWrites) >= 2

(***************************************************************************)
(* Submission endpoint.                                                    *)
(***************************************************************************)
Responded == fx.pc = "done" /\ fx.status = 200

Invoked(service) == \E k \in 1..Len(wire) : wire[k].to = service

\* every integration that was invoked reported success
AllReportSuccess ==
    /\ src.pa = "ok"
    /\ Invoked("clickup") => src.clickup = "success"
    /\ Invoked("quartzy_update_order_status") => src.quartzy \in {"success", "updated"}

\* C26: when Power Automate, ClickUp (samples form with a task id) and the
\* Quartzy order-status update (other form with an order id) that were
\* invoked all report success, the response has overall_success true,
\* clickup.success true for the samples form and quartzy.success true for
\* the other form, the latter derived from the updated flag of a report
\* that has no success key
C26_SuccessReport ==
    (Responded /\ AllReportSuccess) =>
        /\ fx.overall_success
        /\ Invoked("clickup") =>
              Val(fx.payload).form_type = "samples" /\ fx.clickup.success = Some(TRUE)
        /\ Invoked("quartzy_update_order_status") =>
              /\ Val(fx.payload).form_type = "other"
              /\ Val(fx.quartzy).success = Some(TRUE)

C26_Witness ==
    /\ Responded /\ AllReportSuccess
    /\ Invoked("quartzy_update_order_status") /\ src.quartzy = "updated"
    /\ fx.overall_success /\ Val(fx.quartzy).success = Some(TRUE)

\* a samples submission that names a client and neither supplier nor item
SamplesClientOnly ==
    /\ src.fields.form_type = Some("samples") /\ IsSome(src.fields.client)
    /\ ~IsSome(src.fields.supplier) /\ ~IsSome(src.fields.item_name)

\* C27: a samples submission with a client and neither supplier nor item
\* name is accepted, and Power Automate gets the submitted client as client
\* and as supplier, and the submitted item type
C27_SamplesMapping ==
    SamplesClientOnly =>
        /\ fx.pc = "done" => fx.status = 200
        /\ \A k \in 1..Len(wire) :
              wire[k].to = "power_automate" =>
                  /\ wire[k].fields.client = Val(src.fields.client)
                  /\ wire[k].fields.supplier = Val(src.fields.client)
                  /\ wire[k].fields.item_type = Val(src.fields.item_type)

(***************************************************************************)
(* Scheduling of the stride scan, checked under SpecScan.                  *)
(***************************************************************************)
\* the pages after page 1 a frame has dispatched, in the order of dispatch
Dispatched(f) ==
    LET sent == SelectSeq(f.log, LAMBDA e : e.ev = "sent" /\ e.page > 1)
    IN [i \in 1..Len(sent) |-> sent[i].page]

\* the pages dispatched by the step that took a page
DispatchedNow == SubSeq(Dispatched(fx'), Len(Dispatched(fx)) + 1, Len(Dispatched(fx')))

\* the page whose result the step took
TakenNow == fx'.log[Len(fx.log) + 1].page

\* the first dispatch is pages 2..1+W, at most W fetches are in flight and
\* no page is dispatched twice
ScanWindow(f) ==
    LET W == f.stride
        sent == Dispatched(f)
    IN /\ Len(sent) >= W /\ \A i \in 1..W : sent[i] = i + 1
       /\ Cardinality(Futs(f)) <= W
       /\ \A i, j \in 1..Len(sent) : i # j => sent[i] # sent[j]

InCacheOp == { t \in Threads : fx.th[t].pc # "idle" }

\* the slot holds an entry
Holds(slot) ==
    IF IsSome(slot[2]) THEN Val(slot[2]) \in DOMAIN svc.caches[slot[1]]
    ELSE IsSome(svc.caches[slot[1]].data)

\* an entry stored since the last clear is held by the store
StoredIsHeld == \A slot \in fx.stored : Holds(slot)

\* C29: reads, writes and clears of the cache store never overlap, at most
\* one thread being inside one of them, and no entry that a thread stored
\* is lost
C29_CacheExclusive == Cardinality(InCacheOp) <= 1 /\ StoredIsHeld

(***************************************************************************)
(* Selection of the filter strategy, checked under SpecStrategy.           *)
(***************************************************************************)
\* the probe of shape i is answered OK with no order of an unwanted status
Qualifies(i) ==
    /\ src.answers[i].status = "200"
    /\ \A k \in 1..Len(src.answers[i].orders) :
          Lower(Strip(src.answers[i].orders[k])) \notin {"received", "cancelled", "canceled"}

\* the first shape that qualifies, 0 when none does
FirstQualifying ==
    IF \E i \in 1..StrategyCandidates : Qualifies(i)
    THEN CHOOSE i \in 1..StrategyCandidates :
            Qualifies(i) /\ \A j \in 1..(i - 1) : ~Qualifies(j)
    ELSE 0

Probes == SelectSeq(wire, LAMBDA w : w.kind = "probe")

\* the order statuses go out under every common encoding
MultiVariant(params) ==
    LET keys == { kv[1] : kv \in params }
    IN fx.order_tokens # <<>> =>
          /\ {"status", "statuses", "status[]"} \subseteq keys
          /\ \A kv \in params :
                kv[1] \in {"status", "statuses"} =>
                    kv[2] = [shape |-> "csv", vals |-> fx.order_tokens]

\* C30: once discovery is over, the shapes were probed in list order against
\* page 1 up to the first that qualifies (all five when none does), the
\* stored strategy is that shape, or null when none qualifies, and the fetch
\* then sends the multi-variant encodings
C30_StrategySelection ==
    fx.pc \in {"params", "done"} =>
        LET n == IF FirstQualifying = 0 THEN StrategyCandidates ELSE FirstQualifying
        IN /\ Len(Probes) = n
           /\ \A k \in 1..n :
                 /\ Probes[k].page = 1
                 /\ Probes[k].params = ApplyStatusParams(fx.order_tokens, fx.approval_tokens,
                                                         Some(StrategyShapes[k]))
           /\ svc.orders_filter_strategy =
                 IF FirstQualifying = 0 THEN None ELSE Some(StrategyShapes[FirstQualifying])
           /\ (fx.pc = "done" /\ FirstQualifying = 0) => MultiVariant(fx.params)
           /\ (fx.pc = "done" /\ FirstQualifying # 0) =>
                 Cardinality(fx.params) = (IF fx.order_tokens = <<>> THEN 0 ELSE 1)
                                            + (IF fx.approval_tokens = <<>> THEN 0 ELSE 1)

\* shapes 1 and 2 were passed over (a failed probe, an unwanted status) and
\* shape 3 stored, and the fetch was sent
C30_Witness ==
    /\ fx.pc = "done" /\ FirstQualifying = 3
    /\ src.answers[1].status = "500"
    /\ src.answers[2] = [status |-> "200", orders |-> << "ORDERED", "Received" >>]
    /\ svc.orders_filter_strategy = Some(StrategyShapes[3])
    /\ Len(Probes) = 3

\* no shape qualified: nothing is stored and the fetch goes out multi-variant
C30_WitnessNull ==
    /\ fx.pc = "done" /\ FirstQualifying = 0 /\ Len(Probes) = StrategyCandidates
    /\ svc.orders_filter_strategy = None /\ Cardinality(fx.params) >= 3

(***************************************************************************)
(* The retry policy of the transport, checked under SpecTransport.         *)
(***************************************************************************)
\* C31: a request is sent again only when its verb is idempotent and the
\* send before was answered 429, 502, 503 or 504 or failed to connect, at
\* most 3 times; any other answer is handed to the caller after one send
C31_RetryPolicy ==
    /\ Len(wire) <= 1 + 3
    /\ \A k \in 2..Len(wire) :
          /\ wire[k].method \in { "GET", "PUT", "DELETE", "OPTIONS", "HEAD" }
          /\ wire[k-1].answer \in { "429", "502", "503", "504", "conn", "read" }
    /\ (fx.pc = "done" /\ wire[1].answer \in { "200", "404", "500" }) =>
          Len(wire) = 1 /\ fx.outcome = wire[1].answer

(***************************************************************************)
(* The pagination metadata, checked under SpecPage.                        *)
(***************************************************************************)
\* the page size in force: advertised by the headers, else by the body,
\* else 25
EffectivePageSize ==
    IF IsSome(src.headers.x_per_page) THEN Val(src.headers.x_per_page)
    ELSE IF IsSome(src.body.meta.per_page) THEN Val(src.body.meta.per_page)
    ELSE IF IsSome(src.body.pagination.per_page) THEN Val(src.body.pagination.per_page)
    ELSE 25

\* one of the headers says there is a next page
HeaderSaysNext ==
    \/ /\ IsSome(src.headers.x_page) /\ IsSome(src.headers.x_total_pages)
       /\ Val(src.headers.x_page) < Val(src.headers.x_total_pages)
    \/ src.headers.x_next_page
    \/ src.headers.link_next

\* the body of an orders page says there is a next page
BodySaysNext ==
    /\ src.kind = "orders"
    /\ \/ src.body.links_next
       \/ src.body.pagination.next_page
       \/ /\ IsSome(src.body.pagination.current_page)
          /\ IsSome(src.body.pagination.total_pages)
          /\ Val(src.body.pagination.current_page) < Val(src.body.pagination.total_pages)

TimesSent(p) ==
    Cardinality({ i \in 1..Len(fx.log) : fx.log[i].ev = "sent" /\ fx.log[i].page = p })

\* the items of pages 1..T that match the statuses asked for
Matching == IF fx.statuses = <<>> THEN AllItems ELSE Wanted

\* the fetch is over, having requested each page 1..T once, no page more
\* than W past T, and returns the matching items once each
ScannedAll ==
    /\ fx.outcome = "return"
    /\ \A p \in 1..src.T : TimesSent(p) = 1
    /\ \A i \in 1..Len(fx.log) : fx.log[i].page <= src.T + Max(1, fx.max_workers)
    /\ Cardinality({ p \in (src.T + 1)..(src.T + MaxStride + 1) : TimesSent(p) > 0 })
          <= Max(1, fx.max_workers)
    /\ ResultIds = { it.id : it \in Matching }
    /\ Len(fx.results) = Cardinality(Matching)

\* C33: on a collection of T non-empty pages, without failures and with the
\* total unknown, the fetch of orders requests every page 1..T exactly once
\* and at most W pages past T, and returns every matching item of pages
\* 1..T exactly once, for every W and every completion order
C33_StrideComplete == Fetched => ScannedAll

\* the same for the collections whose first page shows that more follow
C33_WhenNextIsShown ==
    (Fetched /\ (src.T > 1 => ListPage(1).has_next)) => ScannedAll

(***************************************************************************)
(* The write attempts of one update_inventory_item call, under Spec.       *)
(***************************************************************************)
\* C34: within one update_inventory_item call no (URL, method, body) is
\* sent more than once
C34_NoDuplicateWrites ==
    \A i, j \in 1..Len(wire) :
        (/\ i < j
         /\ wire[i].by = "update_inventory_item" /\ wire[j].by = "update_inventory_item"
         /\ wire[i].method # "GET") =>
            << wire[i].url, wire[i].method, wire[i].shape, wire[i].qty >>
                # << wire[j].url, wire[j].method, wire[j].shape, wire[j].qty >>

(***************************************************************************)
(* The page cap of fetch_order_requests, checked under SpecPaging.         *)
(***************************************************************************)
\* page_limit when it is positive, else safety_max
Cap ==
    IF IsSome(fx.page_limit) /\ Val(fx.page_limit) > 0 THEN Val(fx.page_limit)
    ELSE fx.safety_max

\* C35: no page beyond cap is requested and the page count of the report
\* does not exceed cap; with all_pages false page 1 alone is requested; and
\* no page is requested after one that failed or was empty
C35_PageCap ==
    /\ \A k \in 1..Len(wire) : wire[k].page <= Cap
    /\ fx.pages <= Cap
    /\ ~fx.all_pages => \A k \in 1..Len(wire) : wire[k].page = 1
    /\ \A k \in 1..Len(wire) :
          (wire[k].page >= 2 /\ (wire[k].answer # "200" \/ wire[k].page > src.T))
              => k = Len(wire)

\* the same with at least 2 pages allowed
C35_PageCapFromTwo == Cap >= 2 => C35_PageCap

(***************************************************************************)
(* The UI-automation job services (app/services/quartzy_auto_update_       *)
(* service.py, quartzy_order_adjust_service.py, quartzy_auto_add_service   *)
(* .py).  Each keeps a dictionary JOBS behind a lock; an op_id is a fresh  *)
(* uuid, here the job's position in JOBS, and the three dictionaries are   *)
(* kept in one, each job tagged with its service.  svc.JOBS is the store,  *)
(* fx the worker threads (pc "none": no thread was started), and           *)
(* h.calls the calls of the start functions that returned: the op_id      *)
(* handed back and the payload it was given.                               *)
(***************************************************************************)
MaxJobs == 2       \* jobs started in one run

NoJob == [kind |-> "", status |-> "", success |-> None, error |-> "",
          request |-> None, log |-> <<>>]

\* _set_job(op_id, **kwargs) of the service `kind`: JOBS.setdefault(op_id, {})
\* .update(kwargs), under the lock; u holds the keys given (None: key not given)
SetJob(JOBS, kind, op_id, u) ==
    LET job == IF op_id <= Len(JOBS) THEN JOBS[op_id] ELSE [NoJob EXCEPT !.kind = kind]
        new == [job EXCEPT !.status = IF IsSome(u.status) THEN Val(u.status) ELSE @,
                           !.success = IF IsSome(u.success) THEN u.success ELSE @,
                           !.error = IF IsSome(u.error) THEN Val(u.error) ELSE @,
                           !.request = IF IsSome(u.request) THEN u.request ELSE @]
    IN IF op_id <= Len(JOBS) THEN [JOBS EXCEPT ![op_id] = new] ELSE Append(JOBS, new)

Status(st) == [status |-> Some(st), success |-> None, error |-> None, request |-> None]
Outcome(st, ok, err) ==
    [status |-> Some(st), success |-> Some(ok),
     error |-> IF err = "" THEN None ELSE Some(err), request |-> None]
Queued(request) ==
    [status |-> Some("queued"), success |-> None, error |-> None,
     request |-> Some(request)]

\* _append_log / _append: job.setdefault("log", []).append(entry), under the lock
AppendLog(s, op_id, msg) ==
    [s EXCEPT !.JOBS[op_id].log = Append(@, msg)]

\* get_job(op_id): a copy of the job, {} for an id the store does not hold
get_job(op_id) ==
    IF op_id \in 1..Len(svc.JOBS) THEN svc.JOBS[op_id] ELSE NoJob

\* a target_quantity as a payload carries it: absent, an integer (or text that
\* int() reads), or text that int() refuses
NoTarget == [given |-> FALSE, reads |-> FALSE, n |-> 0]
Targets ==
    { NoTarget,
      [given |-> TRUE, reads |-> FALSE, n |-> 0] }
    \cup { [given |-> TRUE, reads |-> TRUE, n |-> k] : k \in {0 - 1} }

\* the validation of start_auto_update_quantity / start_adjust_order_quantity:
\* the error raised, "" when the payload passes
PayloadError(kind, payload) ==
    IF payload.id = ""
    THEN (IF kind = "auto_update" THEN "missing_item_id" ELSE "missing_order_id")
    ELSE IF ~payload.target.given THEN "missing_target_quantity"
    ELSE IF ~payload.target.reads
         THEN (IF kind = "auto_update" THEN "invalid_target_quantity"
               ELSE "invalid literal for int()")
    ELSE ""

\* the target stored with the job: the adjust service lifts a negative one to 0
CleanTarget(kind, n) == IF kind = "order_adjust" /\ n < 0 THEN 0 ELSE n

NoThread == [pc |-> "none", kind |-> "", texts |-> TRUE]

\* a start function after its validation: the job queued with its request,
\* "job_queued" logged, the worker thread started
Queue(s, threads, kind, request, texts) ==
    LET op_id == Len(s.JOBS) + 1
        queued == [s EXCEPT !.JOBS = SetJob(@, kind, op_id, Queued(request))]
    IN [svc |-> AppendLog(queued, op_id, "job_queued"),
        fx |-> Append(threads, [pc |-> "start", kind |-> kind, texts |-> texts])]

\* a start function refusing its payload: the job is recorded as an error and
\* the function returns before any thread is made
Refuse(s, threads, kind, err) ==
    [svc |-> [s EXCEPT !.JOBS = SetJob(@, kind, Len(@) + 1, Outcome("error", FALSE, err))],
     fx |-> Append(threads, NoThread)]

\* a start function that queues the job whatever its payload holds
StartAnyway(s, threads, kind, payload) ==
    Queue(s, threads, kind,
          [id |-> payload.id, target_quantity |-> CleanTarget(kind, payload.target.n)],
          TRUE)

\* start_auto_update_quantity / start_adjust_order_quantity: validate, then
\* queue and start the worker
Start(s, threads, kind, payload) ==
    IF PayloadError(kind, payload) # ""
    THEN Refuse(s, threads, kind, PayloadError(kind, payload))
    ELSE Queue(s, threads, kind,
               [id |-> payload.id, target_quantity |-> CleanTarget(kind, payload.target.n)],
               TRUE)

Payloads == [id : {"", "x1"}, target : Targets]

\* the record of a start function's return
StartCall(kind, payload, texts) ==
    [op_id |-> Len(svc.JOBS) + 1, kind |-> kind, id |-> payload.id,
     target |-> payload.target, texts |-> texts]

start_auto_update_quantity ==
    /\ Len(svc.JOBS) < MaxJobs
    /\ \E payload \in Payloads :
          LET st == Start(svc, fx, "auto_update", payload)
          IN /\ svc' = st.svc
             /\ fx' = st.fx
             /\ h' = [h EXCEPT !.calls = Append(@, StartCall("auto_update", payload, TRUE))]
    /\ UNCHANGED <<now, src, remote, cfg, op, args, cur, tries, wire, ret>>

\* the order is looked up for its app_url between the validation and the
\* queuing; the lookup leaves the store alone
start_adjust_order_quantity ==
    /\ Len(svc.JOBS) < MaxJobs
    /\ \E payload \in Payloads :
          LET st == Start(svc, fx, "order_adjust", payload)
          IN /\ svc' = st.svc
             /\ fx' = st.fx
             /\ h' = [h EXCEPT !.calls = Append(@, StartCall("order_adjust", payload, TRUE))]
    /\ UNCHANGED <<now, src, remote, cfg, op, args, cur, tries, wire, ret>>

\* start_auto_add has no validation: every item is queued.  texts tells
\* whether the item's name, vendor, catalog number, location and notes are
\* strings (or absent), which the worker's .strip() calls need
start_auto_add ==
    /\ Len(svc.JOBS) < MaxJobs
    /\ \E texts \in BOOLEAN :
          LET st == Queue(svc, fx, "auto_add", [id |-> "", target_quantity |-> 0], texts)
          IN /\ svc' = st.svc
             /\ fx' = st.fx
             /\ h' = [h EXCEPT !.calls =
                          Append(@, StartCall("auto_add",
                                              [id |-> "", target |-> NoTarget], texts))]
    /\ UNCHANGED <<now, src, remote, cfg, op, args, cur, tries, wire, ret>>

(***************************************************************************)
(* The workers.  A step is one acquisition of the lock (a _set_job or an   *)
(* append to the log) together with the code that runs up to it; what the  *)
(* environment does (Playwright missing, credentials unset, the browser    *)
(* session raising, the item found or not) is chosen at the step.          *)
(***************************************************************************)
Set(u, to) == [set |-> Some(u), log |-> None, to |-> to]
Log(msg, to) == [set |-> None, log |-> Some(msg), to |-> to]
Pass(to) == [set |-> None, log |-> None, to |-> to]

\* the guards every worker runs before the browser: Playwright importable,
\* credentials set, then launching_browser
BrowserGuards ==
    { Set(Outcome("error", FALSE, "playwright_not_available"), "log_playwright"),
      Set(Outcome("error", FALSE, "missing_quartzy_credentials"), "log_credentials"),
      Set(Status("launching_browser"), "log_launching") }

\* the steps all three workers share, from the guards' logs to the handler of
\* an exception that left the browser session
SharedSteps(pc) ==
    CASE pc = "log_playwright" -> { Log("playwright_missing", "exit") }
      [] pc = "log_credentials" -> { Log("missing_credentials", "exit") }
      [] pc = "log_launching" -> { Log("launching_browser", "session") }
      [] pc = "raised" -> { Set(Outcome("error", FALSE, "exception"), "log_exception") }
      [] pc = "log_exception" -> { Log("job_exception", "exit") }
      [] OTHER -> {}

\* quartzy_auto_update_service._worker
AutoUpdateSteps(pc) ==
    CASE pc = "start" -> { Set(Status("starting"), "log_start") }
      [] pc = "log_start" -> { Log("starting_worker", "guards") }
      [] pc = "guards" -> BrowserGuards
      [] pc = "session" -> { Log("goto_login", "page"), Pass("raised") }
      [] pc = "page" -> { Set(Outcome("updated", TRUE, ""), "log_done"),
                          Log("screenshot", "raised") }
      [] pc = "log_done" -> { Log("update_done", "finally") }
      [] pc = "finally" -> { Log("screenshot", "exit"), Log("screenshot", "raised") }
      [] OTHER -> SharedSteps(pc)

\* quartzy_order_adjust_service._worker
OrderAdjustSteps(pc) ==
    CASE pc = "start" -> { Set(Status("starting"), "log_start") }
      [] pc = "log_start" -> { Log("starting_worker", "guards") }
      [] pc = "guards" -> BrowserGuards
      [] pc = "session" -> { Log("chromium_launch_ok", "page"), Pass("raised") }
      [] pc = "page" -> { Set(Outcome("adjusted", TRUE, ""), "log_already"),
                          Set(Outcome("adjusted", TRUE, ""), "log_done"),
                          Set(Outcome("error", FALSE, "verify_mismatch"), "log_failed"),
                          Log("screenshot", "raised") }
      [] pc = "log_already" -> { Log("adjust_already_correct", "finally") }
      [] pc = "log_done" -> { Log("adjust_done", "finally") }
      [] pc = "log_failed" -> { Log("adjust_failed", "finally") }
      [] pc = "finally" -> { Log("screenshot", "exit"), Log("screenshot", "raised") }
      [] OTHER -> SharedSteps(pc)

\* quartzy_auto_add_service._worker.  The item's texts are stripped before the
\* try block: an item with a text field that is not a string ends the thread
\* there, with an exception nothing handles
AutoAddSteps(pc, texts) ==
    CASE pc = "start" -> { Set(Status("checking"), "log_start") }
      [] pc = "log_start" -> { Log("checking_existing", "fields") }
      [] pc = "fields" -> { Pass(IF texts THEN "match" ELSE "dead") }
      [] pc = "match" -> { Set(Outcome("already_exists", TRUE, ""), "log_existing") }
                            \cup BrowserGuards
      [] pc = "log_existing" -> { Log("existing_item_found", "exit") }
      [] pc = "session" -> { Log("goto_login", "page"), Pass("raised") }
      [] pc = "page" -> { Log("screenshot", "search"), Log("screenshot", "raised") }
      [] pc = "search" -> { Set(Outcome("created", TRUE, ""), "log_created"),
                            Set(Outcome("unknown", FALSE, "post_create_not_found"),
                                "log_unknown") }
      [] pc = "log_created" -> { Log("created_ok", "exit") }
      [] pc = "log_unknown" -> { Log("post_create_not_found", "exit") }
      [] OTHER -> SharedSteps(pc)

\* thread op_id takes the step st
Take(op_id, st) ==
    /\ svc' = LET set == IF IsSome(st.set)
                         THEN [svc EXCEPT !.JOBS = SetJob(@, fx[op_id].kind, op_id,
                                                          Val(st.set))]
                         ELSE svc
              IN IF IsSome(st.log) THEN AppendLog(set, op_id, Val(st.log)) ELSE set
    /\ fx' = [fx EXCEPT ![op_id].pc = st.to]
    /\ UNCHANGED <<now, src, wvars>>

auto_update_worker ==
    \E op_id \in 1..Len(fx) :
        /\ fx[op_id].kind = "auto_update"
        /\ \E st \in AutoUpdateSteps(fx[op_id].pc) : Take(op_id, st)

order_adjust_worker ==
    \E op_id \in 1..Len(fx) :
        /\ fx[op_id].kind = "order_adjust"
        /\ \E st \in OrderAdjustSteps(fx[op_id].pc) : Take(op_id, st)

auto_add_worker ==
    \E op_id \in 1..Len(fx) :
        /\ fx[op_id].kind = "auto_add"
        /\ \E st \in AutoAddSteps(fx[op_id].pc, fx[op_id].texts) : Take(op_id, st)

InitJobs ==
    /\ remote = BaseRemote /\ cfg = [lid |-> FALSE, enabled |-> TRUE]
    /\ op = "none" /\ args = <<>> /\ cur = Idle
    /\ tries = <<>> /\ wire = <<>> /\ ret = Running
    /\ src = <<>> /\ now = 0
    /\ svc = [JOBS |-> <<>>]
    /\ fx = <<>>
    /\ h = [calls |-> <<>>]

Workers == auto_update_worker \/ order_adjust_worker \/ auto_add_worker

NextJobs ==
    \/ start_auto_update_quantity
    \/ start_adjust_order_quantity
    \/ start_auto_add
    \/ auto_update_worker
    \/ order_adjust_worker
    \/ auto_add_worker

SpecJobs == InitJobs /\ [][NextJobs]_vars

\* every thread that can step eventually does
SpecJobsFair == SpecJobs /\ WF_vars(Workers)

(***************************************************************************)
(* submit_reception, the 'other' form with an order id: the order's status *)
(* update and the partial reception (app/api/submission.py).               *)
(***************************************************************************)
MaxExpected == 2   \* largest expected quantity of an order

\* the quantity field of the form: absent or empty, the text of an integer n,
\* or text that int() refuses
QuantityTexts ==
    { [text |-> "none", n |-> 0], [text |-> "other", n |-> 0] }
    \cup { [text |-> "int", n |-> k] : k \in (0 - 1)..(MaxExpected + 1) }

\* recv_qty = int(str(payload.quantity or "").strip() or 0), 0 when int() raises
ParseReceived(quantity) == IF quantity.text = "int" THEN quantity.n ELSE 0

\* a reception is treated as partial also when all that was expected arrived
IsPartialOrEqual(expected_qty, recv_qty) ==
    IsSome(expected_qty) /\ recv_qty <= Val(expected_qty)

\* expected_qty is not None and recv_qty < expected_qty
IsPartial(expected_qty, recv_qty) ==
    IsSome(expected_qty) /\ recv_qty < Val(expected_qty)

\* rem = max(0, ordered_qty - received_qty)
Remaining(ordered_qty, received_qty) == Max(0, ordered_qty - received_qty)

PartialFrame(payload) ==
    [name |-> "submit_reception", stage |-> "begin", payload |-> payload,
     recv |-> 0, rem |-> 0, resp |-> Running]

\* results["quartzy"]: absent, the status update's report, or the partial
\* reception's metadata
QuartzyResult(present, partial, success, started, op_id) ==
    [kind |-> "return", present |-> present, partial |-> partial,
     success |-> success, order_adjust_started |-> started,
     order_adjust_op_id |-> op_id]

\* up to the first service call: nothing to do without an order id on the
\* 'other' form; the order is read when partial receptions are handled
submit_reception_partial_begin ==
    /\ h.name = "submit_reception" /\ h.stage = "begin"
    /\ LET p == h.payload
       IN IF ~(p.form_type = "other" /\ ~Falsy(p.order_id))
          THEN /\ h' = Respond_(h, QuartzyResult(FALSE, FALSE, FALSE, FALSE, 0))
               /\ UNCHANGED <<op, args, cur, tries, ret>>
          ELSE IF cfg.enable_partial_status
          THEN /\ h' = [h EXCEPT !.stage = "order", !.recv = ParseReceived(p.quantity)]
               /\ Enter("get_order_request", [order_id |-> p.order_id])
          ELSE /\ h' = [h EXCEPT !.stage = "status"]
               /\ Enter("update_order_request_status",
                        [order_id |-> p.order_id, new_status |-> "RECEIVED"])
    /\ UNCHANGED <<svc, now, src, fx, remote, cfg, wire>>

\* the order was read: the partial decision, then either the status update or
\* the start of the adjust job (start_adjust_order_quantity up to its lookup
\* of the order)
submit_reception_partial_order ==
    /\ h.name = "submit_reception" /\ h.stage = "order" /\ Returned
    /\ LET p == h.payload
           expected_qty == IF ret.ok THEN Val(ret.item).quantity ELSE None
       IN IF IsPartial(expected_qty, h.recv)
          THEN LET rem == Remaining(Val(expected_qty), h.recv)
                   job == [id |-> p.order_id,
                           target |-> [given |-> TRUE, reads |-> TRUE, n |-> rem]]
               IN IF PayloadError("order_adjust", job) # ""
                  THEN /\ svc' = Refuse(svc, fx, "order_adjust",
                                        PayloadError("order_adjust", job)).svc
                       /\ fx' = Refuse(svc, fx, "order_adjust",
                                       PayloadError("order_adjust", job)).fx
                       /\ h' = Respond_(h, QuartzyResult(TRUE, TRUE, FALSE, TRUE,
                                                         Len(svc.JOBS) + 1))
                       /\ UNCHANGED <<op, args, cur, tries, ret>>
                  ELSE /\ h' = [h EXCEPT !.stage = "adjust", !.rem = rem]
                       /\ Enter("get_order_request", [order_id |-> p.order_id])
                       /\ UNCHANGED <<svc, fx>>
          ELSE /\ h' = [h EXCEPT !.stage = "status"]
               /\ Enter("update_order_request_status",
                        [order_id |-> p.order_id, new_status |-> "RECEIVED"])
               /\ UNCHANGED <<svc, fx>>
    /\ UNCHANGED <<now, src, remote, cfg, wire>>

\* the rest of start_adjust_order_quantity, and the metadata handed back
submit_reception_partial_adjust ==
    /\ h.name = "submit_reception" /\ h.stage = "adjust" /\ Returned
    /\ LET st == Queue(svc, fx, "order_adjust",
                       [id |-> h.payload.order_id,
                        target_quantity |-> CleanTarget("order_adjust", h.rem)], TRUE)
       IN /\ svc' = st.svc
          /\ fx' = st.fx
          /\ h' = Respond_(h, QuartzyResult(TRUE, TRUE, FALSE, TRUE, Len(svc.JOBS) + 1))
    /\ UNCHANGED <<now, src, remote, cfg, op, args, cur, tries, wire, ret>>

\* the status update's report, with success read from updated
submit_reception_partial_status ==
    /\ h.name = "submit_reception" /\ h.stage = "status" /\ Returned
    /\ h' = Respond_(h, QuartzyResult(TRUE, FALSE, ret.ok, FALSE, 0))
    /\ UNCHANGED <<svc, now, src, fx, remote, cfg, op, args, cur, tries, wire, ret>>

\* the integration is configured (enabled, with a token); partial handling is
\* the configuration's flag
InitPartial ==
    /\ tries = <<>> /\ wire = <<>> /\ ret = Running
    /\ src = <<>> /\ now = 0
    /\ svc = [JOBS |-> <<>>] /\ fx = <<>>
    /\ op = "none" /\ args = <<>> /\ cur = Idle
    /\ cfg \in {[lid |-> FALSE, enabled |-> TRUE, enable_partial_status |-> e] :
                  e \in BOOLEAN}
    /\ remote \in {[BaseRemote EXCEPT !.get.order = go, !.order.quantity = oq,
                                      !.okAt = w[1], !.thenOk = w[2]] :
                     go \in {"200", "404", "exc"},
                     oq \in {None} \cup {Some(q) : q \in 0..MaxExpected},
                     w \in HandlerWrites}
    /\ h \in {PartialFrame([form_type |-> ft, order_id |-> id, quantity |-> q]) :
                ft \in {"other", "stock"}, id \in {"", "o1"}, q \in QuantityTexts}

NextPartial ==
    \/ submit_reception_partial_begin
    \/ get_order_request
    \/ submit_reception_partial_order
    \/ submit_reception_partial_adjust
    \/ update_order_request_status_call
    \/ update_order_request_status
    \/ submit_reception_partial_status
    \/ order_adjust_worker

SpecPartial == InitPartial /\ [][NextPartial]_vars

(***************************************************************************)
(* The receive workflow: what it writes, in which order, and its verdict.  *)
(***************************************************************************)
AnyWrites == { k \in 1..Len(wire) : wire[k].method \in WriteMethods }
StatusWrites == { k \in 1..Len(wire) : wire[k].by = "update_order_request_status"
                                          /\ wire[k].method \in WriteMethods }
OrderWasFound ==
    \E k \in 1..Len(wire) : wire[k].by = "get_order_request" /\ wire[k].answer = "200"
StrictMatchExists ==
    \E k \in 1..Len(wire) :
        wire[k].by = "strict_inventory_match" /\ wire[k].answer = "200" /\ remote.listed

C36_WitnessGate ==
    /\ h.name = "receive_order_basic" /\ h.stage = "done"
    /\ OrderWasFound /\ ~StrictMatchExists /\ AnyWrites = {}

(***************************************************************************)
(* The API-create gate of create_or_update_inventory.                      *)
(***************************************************************************)
CreatePosts == { k \in 1..Len(wire) : wire[k].method = "POST" }
MatchWasFound ==
    \E k \in 1..Len(wire) :
        wire[k].by = "find_inventory_match" /\ wire[k].answer = "200" /\ remote.listed
CreateNotAllowed ==
    \/ h.payload.allow_api_create = Some(FALSE)
    \/ h.payload.allow_api_create = None /\ ~cfg.allow_api_inventory_create
MatchLooked == \E k \in 1..Len(wire) : wire[k].by = "find_inventory_match"

C37_WitnessMatch ==
    /\ h.name = "create_or_update_inventory" /\ h.stage = "done"
    /\ MatchWasFound /\ h.resp.updated /\ AnyWrites # {}

\* the gate open: an unmatched item was posted
C37_WitnessOpen ==
    /\ h.name = "create_or_update_inventory" /\ h.stage = "done"
    /\ ~CreateNotAllowed /\ ~MatchWasFound /\ CreatePosts # {} /\ h.resp.created

(***************************************************************************)
(* The jobs as their callers see them.                                     *)
(***************************************************************************)
StatusRank(st) ==
    CASE st = "queued" -> 1
      [] st \in {"starting", "checking"} -> 2
      [] st = "launching_browser" -> 3
      [] st \in {"error", "updated", "adjusted", "already_exists", "created", "unknown"} -> 4
      [] OTHER -> 0
Terminal(st) == StatusRank(st) = 4

\* the call went to a service that requires an id and a target quantity, and
\* its payload lacked one of them
MissingRequired(call) ==
    /\ call.kind \in {"auto_update", "order_adjust"}
    /\ (call.id = "" \/ ~call.target.given)

\* C39: once a start function has returned op_id, get_job(op_id) is non-empty
\* with status queued or later; a job whose payload lacked the id or the target
\* quantity has status error and success false, and no thread was started for it.
C39_VisibleAtStart ==
    \A k \in 1..Len(h.calls) :
        LET call == h.calls[k]
        IN /\ get_job(call.op_id) # NoJob
           /\ StatusRank(get_job(call.op_id).status) >= 1
           /\ MissingRequired(call) =>
                 /\ get_job(call.op_id).status = "error"
                 /\ get_job(call.op_id).success = Some(FALSE)
                 /\ fx[call.op_id].pc = "none"

\* one job refused for its missing target quantity, one queued with its thread
C39_Witness ==
    /\ Len(h.calls) = 2
    /\ MissingRequired(h.calls[1]) /\ h.calls[1].id # ""
    /\ get_job(h.calls[1].op_id).status = "error"
    /\ ~MissingRequired(h.calls[2]) /\ fx[h.calls[2].op_id].pc # "none"

\* a worker thread was started for job op_id
ThreadStarted(op_id) == op_id <= Len(fx) /\ fx[op_id].pc # "none"
\* job op_id has a terminal status and its success flag
Settled(op_id) ==
    /\ Terminal(get_job(op_id).status)
    /\ IsSome(get_job(op_id).success)

IsPrefix(s, t) == Len(s) <= Len(t) /\ SubSeq(t, 1, Len(s)) = s

\* the status of a job never moves back
StatusForward ==
    [][\A op_id \in 1..Len(svc.JOBS) :
          StatusRank(svc.JOBS'[op_id].status) >= StatusRank(svc.JOBS[op_id].status)]_vars

\* the log of a job only grows, at its end
LogsRetained ==
    [][\A op_id \in 1..Len(svc.JOBS) :
          IsPrefix(svc.JOBS[op_id].log, svc.JOBS'[op_id].log)]_vars

\* C40: every job whose worker was started eventually has a terminal status
\* with its success flag set; a job's status only moves forward (queued, then
\* starting or checking, then launching_browser, then terminal), so that after a
\* terminal status no earlier one is reported again; and every log entry
\* appended is retained, in append order.
C40_JobLifecycle ==
    /\ \A op_id \in 1..MaxJobs : ThreadStarted(op_id) ~> Settled(op_id)
    /\ StatusForward
    /\ LogsRetained

\* the same for the jobs whose worker does not end on an unhandled exception:
\* the auto-add jobs are those of items whose text fields are strings
C40_JobLifecycleOfTextItems ==
    /\ \A op_id \in 1..MaxJobs :
          (ThreadStarted(op_id) /\ fx[op_id].texts) ~> Settled(op_id)
    /\ StatusForward
    /\ LogsRetained

\* an auto-add worker ended by the exception, its job left at "checking"
C40_Stuck ==
    \E op_id \in 1..Len(fx) :
        fx[op_id].pc = "dead" /\ get_job(op_id).status = "checking"

(***************************************************************************)
(* Partial reception.                                                      *)
(***************************************************************************)
PartialHandled ==
    /\ h.name = "submit_reception"
    /\ h.payload.form_type = "other" /\ h.payload.order_id # ""
    /\ cfg.enable_partial_status
\* the quantity received, as the form's field reads
ReceivedQuantity == ParseReceived(h.payload.quantity)
\* the order's expected quantity, None when it cannot be read
ExpectedQuantity == IF remote.get.order = "200" THEN remote.order.quantity ELSE None
ReceivedUpdates ==
    { k \in StatusWrites : wire[k].shape \in {"status=RECEIVED", "status=received"} }
AdjustJobs ==
    { op_id \in 1..Len(svc.JOBS) : svc.JOBS[op_id].kind = "order_adjust" }

\* C38: with partial handling on, a reception of less than the order expects
\* sends no RECEIVED status update and starts exactly one adjust job, with
\* target_quantity max(0, expected - received); a reception of at least what is
\* expected, or of an order whose expected quantity cannot be read, sends the
\* RECEIVED update and starts no adjust job.
C38_PartialReception ==
    PartialHandled =>
        IF IsSome(ExpectedQuantity) /\ ReceivedQuantity < Val(ExpectedQuantity)
        THEN /\ StatusWrites = {}
             /\ Cardinality(AdjustJobs) <= 1
             /\ h.stage = "done" =>
                   /\ Cardinality(AdjustJobs) = 1
                   /\ \A op_id \in AdjustJobs :
                         /\ ThreadStarted(op_id)
                         /\ svc.JOBS[op_id].request =
                               Some([id |-> h.payload.order_id,
                                     target_quantity |->
                                        Max(0, Val(ExpectedQuantity) - ReceivedQuantity)])
        ELSE /\ AdjustJobs = {}
             /\ h.stage = "done" => ReceivedUpdates # {}

\* a partial reception answered: 1 of 2 received, the adjust job started for 1
C38_Witness ==
    /\ PartialHandled /\ h.stage = "done"
    /\ ExpectedQuantity = Some(2) /\ ReceivedQuantity = 1
    /\ Cardinality(AdjustJobs) = 1 /\ h.resp.order_adjust_started

\* a complete reception answered: the order marked RECEIVED, no job
C38_WitnessComplete ==
    /\ PartialHandled /\ h.stage = "done"
    /\ ExpectedQuantity = Some(2) /\ ReceivedQuantity = 2
    /\ ReceivedUpdates # {} /\ AdjustJobs = {}

====
